---- MODULE Spec2Model ----
(***************************************************************************)
(* Model of the sip web-terminal server: admission control, the two        *)
(* transport handlers (WebSocket and WebTransport), their output and input *)
(* pumps, the message dispatcher, and the session lifecycle of the         *)
(* embedded-program (webSession) and spawned-process (cmdSession)          *)
(* variants.                                                               *)
(***************************************************************************)
EXTENDS Integers, Sequences, FiniteSets, TLC

\* ------------------------------------------------------------------ bounds
NumConns == 2        \* connection slots served concurrently
MaxLimit == 1        \* largest configured MaxConnections explored
MaxClientMsgs == 2   \* client messages per connection, the first frame included
MaxChunks == 2       \* output chunks a program writes per session
MaxBurst == 3        \* client messages of a burst on a running session (SpecBurst)
NumIds == 2          \* distinct clock readings time.Now().UnixNano() can give
NumClosers == 3      \* racing callers of the close operation (SpecClose)

Conns == 1..NumConns
Ids == 1..NumIds
Closers == 1..NumClosers
NoSession == 0

\* ------------------------------------------------------- protocol constants
MsgInput == "0"
MsgOutput == "1"
MsgResize == "2"
MsgPing == "3"
MsgPong == "4"
MsgTitle == "5"
MsgOptions == "6"
MsgClose == "7"

DefaultSize == <<80, 24>>
NoSize == <<0, 0>>

\* A resize payload is JSON text; what matters of it is whether it parses and
\* the two integers it then carries.
NoJson == [ok |-> FALSE, cols |-> 0, rows |-> 0]
Json(c, r) == [ok |-> TRUE, cols |-> c, rows |-> r]

\* A protocol message: type byte + payload.  len is the class of its length
\* len(type + payload): "small" (below 1024), "large" (1024 .. 1 MiB) or
\* "over" (above the 1 MiB cap of the length-prefixed transport).
Message(t, b, j, l) == [type |-> t, bytes |-> b, json |-> j, len |-> l]

ClientMsgs ==
    { Message(MsgInput, <<"a">>, NoJson, "small"),
      Message(MsgResize, <<>>, Json(100, 40), "small"),
      Message(MsgResize, <<>>, NoJson, "small"),
      Message(MsgPing, <<>>, NoJson, "small"),
      Message(MsgInput, <<"b">>, NoJson, "over") }

\* The WebSocket transport carries whole messages and has no length field:
\* the framing cap concerns the length-prefixed transport only.
MsgsOn(t) == IF t = "wt" THEN ClientMsgs ELSE {m \in ClientMsgs : m.len # "over"}

\* Messages of a burst on a running session: two different input payloads,
\* two different resizes, a resize that does not parse.
BurstMsgs ==
    { Message(MsgInput, <<"a">>, NoJson, "small"),
      Message(MsgInput, <<"b">>, NoJson, "small"),
      Message(MsgResize, <<>>, Json(100, 40), "small"),
      Message(MsgResize, <<>>, Json(120, 50), "small"),
      Message(MsgResize, <<>>, NoJson, "small") }

\* Messages of the framing scenario: one frame within the cap, one above it.
FrameMsgs ==
    { Message(MsgInput, <<"a">>, NoJson, "small"),
      Message(MsgInput, <<"b">>, NoJson, "over") }

\* A message of no bytes at all: no type byte, no payload.
EmptyMsg == Message("", <<>>, NoJson, "small")

\* Messages the dispatcher has no work for: a ping, the empty message, a
\* type the protocol does not define, a type only the server sends.
OtherMsgs ==
    { Message(MsgPing, <<>>, NoJson, "small"),
      EmptyMsg,
      Message("9", <<"x">>, NoJson, "small"),
      Message(MsgClose, <<"x">>, NoJson, "small"),
      Message(MsgInput, <<"a">>, NoJson, "small") }

ServerMsg(t, b) == [type |-> t, bytes |-> b]

VARIABLES
    \* Config (immutable after start)
    maxConnections, readOnly, cmdMode,
    \* httpServer
    connCount, sessions,
    \* httpServer.start: the two listeners, errChan, the caller's context
    httpL, wtL, errChan, stopCtx, startPc,
    \* handler goroutine of each connection
    transport, hpc, newCount, ctxDone, response, initSize, desync,
    \* session
    sessId, size, closed, sessDone, winch, teaSize,
    \* bridge and backing program / process
    procState, bgDone, bridgeClosed, ptySize, outPending, produced, bridgeIn,
    \* pumps
    opc, ipc,
    \* pool buffers the pumps of each connection have checked out
    bufs,
    \* client end of the connection
    clientState, inbox, sent, toClient,
    \* calls of closeSession / closeCmdSession in progress
    cpc,
    \* a call of Resize in progress, and what a reader of Pty() last saw
    rpc, rargs, ptySeen,
    \* one length-prefixed stream at byte level: the bytes written and not yet
    \* read, the input pump's position on it, the messages written to it and
    \* the messages handed to processInput
    wire, need, written, decoded,
    \* bookkeeping for the properties
    incs, decs, releases, exitedOwn, effects, dispatched

cfgVars == <<maxConnections, readOnly, cmdMode>>
srvVars == <<connCount, sessions>>
lVars == <<httpL, wtL, errChan, stopCtx, startPc>>
rVars == <<rpc, rargs, ptySeen>>
fVars == <<wire, need, written, decoded>>
hVars == <<transport, hpc, newCount, ctxDone, response, initSize, desync>>
sVars == <<sessId, size, closed, sessDone, winch, teaSize>>
bVars == <<procState, bgDone, bridgeClosed, ptySize, outPending, produced, bridgeIn>>
pVars == <<opc, ipc, bufs>>
cVars == <<clientState, inbox, sent, toClient>>
histVars == <<incs, decs, releases, exitedOwn, effects, dispatched>>
vars == <<cfgVars, srvVars, lVars, hVars, sVars, bVars, pVars, cVars, cpc, rVars, fVars,
          histVars>>

Set(f, c, v) == [f EXCEPT ![c] = v]

NoEffects == [quit |-> 0, cancel |-> 0, platform |-> 0, delete |-> 0]

\* Positions of the byte-level input pump: before a length prefix, reading a
\* message of n bytes, returned.
AtLength == [at |-> "length", len |-> 0]
AtBody(n) == [at |-> "body", len |-> n]
PumpReturned == [at |-> "returned", len |-> 0]

\* Buffers out of readBufPool, writeBufPool and smallBufPool.
NoBufs == [read |-> 0, write |-> 0, small |-> 0]

\* Connections that passed checkConnectionLimit and did not yet run
\* releaseConnection.
Admitted(c) ==
    hpc[c] \in {"admitted", "negotiate", "create", "start", "pumps", "wtwait",
                "closing", "release"}
NumAdmitted == Cardinality({c \in Conns : Admitted(c)})
Checking(c) == hpc[c] = "chk"

\* ------------------------------------------------------------------- Init
\* httpServer.start has launched both listeners, both accept requests, and
\* the call waits in its select.
Serving ==
    /\ httpL = "serving"
    /\ wtL = "serving"
    /\ errChan = <<>>
    /\ stopCtx = FALSE
    /\ startPc = "select"

\* No Resize call is in progress and nothing has read Pty().
NoResize ==
    /\ rpc = [c \in Conns |-> "idle"]
    /\ rargs = [c \in Conns |-> NoSize]
    /\ ptySeen = [c \in Conns |-> <<NoSize, NoSize>>]

\* Nothing written to the byte-level stream; its pump is about to read a
\* length.
NoFrames ==
    /\ wire = <<>>
    /\ need = AtLength
    /\ written = <<>>
    /\ decoded = <<>>

\* No connection yet.
InitHandlers ==
    /\ NoResize
    /\ NoFrames
    /\ maxConnections \in 0..MaxLimit
    /\ readOnly \in BOOLEAN
    /\ cmdMode \in BOOLEAN
    /\ connCount = 0
    /\ sessions = [i \in Ids |-> NoSession]
    /\ transport = [c \in Conns |-> "ws"]
    /\ hpc = [c \in Conns |-> "idle"]
    /\ newCount = [c \in Conns |-> 0]
    /\ ctxDone = [c \in Conns |-> FALSE]
    /\ response = [c \in Conns |-> "none"]
    /\ initSize = [c \in Conns |-> NoSize]
    /\ desync = [c \in Conns |-> FALSE]
    /\ sessId = [c \in Conns |-> NoSession]
    /\ size = [c \in Conns |-> NoSize]
    /\ closed = [c \in Conns |-> FALSE]
    /\ sessDone = [c \in Conns |-> FALSE]
    /\ winch = [c \in Conns |-> <<>>]
    /\ teaSize = [c \in Conns |-> NoSize]
    /\ procState = [c \in Conns |-> "none"]
    /\ bgDone = [c \in Conns |-> FALSE]
    /\ bridgeClosed = [c \in Conns |-> FALSE]
    /\ ptySize = [c \in Conns |-> NoSize]
    /\ outPending = [c \in Conns |-> <<>>]
    /\ produced = [c \in Conns |-> 0]
    /\ bridgeIn = [c \in Conns |-> <<>>]
    /\ opc = [c \in Conns |-> "idle"]
    /\ ipc = [c \in Conns |-> "idle"]
    /\ bufs = [c \in Conns |-> NoBufs]
    /\ clientState = [c \in Conns |-> "none"]
    /\ inbox = [c \in Conns |-> <<>>]
    /\ sent = [c \in Conns |-> 0]
    /\ toClient = [c \in Conns |-> <<>>]
    /\ cpc = [c \in Conns |-> [k \in Closers |-> "idle"]]
    /\ incs = [c \in Conns |-> 0]
    /\ decs = [c \in Conns |-> 0]
    /\ releases = [c \in Conns |-> 0]
    /\ exitedOwn = [c \in Conns |-> FALSE]
    /\ effects = [c \in Conns |-> NoEffects]
    /\ dispatched = [c \in Conns |-> <<>>]

Init == InitHandlers /\ Serving

\* ------------------------------------------------------ admission control
\* atomic.AddInt32(&s.connCount, 1) / (-1): the new value
incrementConnCount == connCount + 1
decrementConnCount == connCount - 1

\* Variant: the test for "unlimited" written as < 0.
LimitOffStrict == maxConnections < 0

\* s.config.MaxConnections <= 0: the limit is off
LimitOff == maxConnections <= 0

\* Variant: the comparison off by one.
OverLimitOffByOne(n) == n > maxConnections + 1

\* int(newCount) > s.config.MaxConnections
OverLimit(n) == n > maxConnections

\* A new connection arrives on slot c (a free slot, or one whose handler has
\* returned) and its handler enters checkConnectionLimit: with the limit off
\* it returns true at once, otherwise it increments the counter.
HandlerEnter(c, t) ==
    /\ hpc[c] \in {"idle", "done"}
    /\ transport' = Set(transport, c, t)
    /\ newCount' = Set(newCount, c, IF LimitOff THEN 0 ELSE incrementConnCount)
    /\ connCount' = IF LimitOff THEN connCount ELSE incrementConnCount
    /\ hpc' = Set(hpc, c, IF LimitOff THEN "admitted" ELSE "chk")
    /\ response' = Set(response, c, "none")
    /\ clientState' = Set(clientState, c, "open")
    /\ incs' = Set(incs, c, IF LimitOff THEN 0 ELSE 1)
    /\ decs' = Set(decs, c, 0)
    /\ releases' = Set(releases, c, 0)
    /\ UNCHANGED <<cfgVars, fVars, lVars, rVars, sessions, ctxDone, initSize, desync, sVars, bVars,
                   pVars, inbox, sent, toClient, cpc, exitedOwn, effects, dispatched>>

\* Variant: the rejecting branch returns false without undoing its increment.
checkConnectionLimitNoUndo(c) ==
    /\ hpc[c] = "chk"
    /\ hpc' = Set(hpc, c, IF OverLimit(newCount[c]) THEN "rejected" ELSE "admitted")
    /\ UNCHANGED <<cfgVars, fVars, lVars, rVars, srvVars, transport, newCount, ctxDone, response,
                   initSize, desync, sVars, bVars, pVars, cVars, cpc, histVars>>

\* checkConnectionLimit after the increment: over the limit it decrements
\* again and returns false, otherwise it returns true.
checkConnectionLimit(c) ==
    /\ hpc[c] = "chk"
    /\ IF OverLimit(newCount[c])
       THEN /\ connCount' = decrementConnCount
            /\ decs' = Set(decs, c, decs[c] + 1)
            /\ hpc' = Set(hpc, c, "rejected")
       ELSE /\ hpc' = Set(hpc, c, "admitted")
            /\ UNCHANGED <<connCount, decs>>
    /\ UNCHANGED <<cfgVars, fVars, lVars, rVars, sessions, transport, newCount, ctxDone, response,
                   initSize, desync, sVars, bVars, pVars, cVars, cpc, incs,
                   releases, exitedOwn, effects, dispatched>>

\* The handler of c has returned: its context, pumps, session and network
\* connection are no longer part of the state.
Returned(c) ==
    /\ hpc' = Set(hpc, c, "done")
    /\ newCount' = Set(newCount, c, 0)
    /\ ctxDone' = Set(ctxDone, c, FALSE)
    /\ initSize' = Set(initSize, c, NoSize)
    /\ desync' = Set(desync, c, FALSE)
    /\ sessId' = Set(sessId, c, NoSession)
    /\ size' = Set(size, c, NoSize)
    /\ closed' = Set(closed, c, FALSE)
    /\ sessDone' = Set(sessDone, c, FALSE)
    /\ winch' = Set(winch, c, <<>>)
    /\ teaSize' = Set(teaSize, c, NoSize)
    /\ procState' = Set(procState, c, "none")
    /\ bgDone' = Set(bgDone, c, FALSE)
    /\ bridgeClosed' = Set(bridgeClosed, c, FALSE)
    /\ ptySize' = Set(ptySize, c, NoSize)
    /\ outPending' = Set(outPending, c, <<>>)
    /\ produced' = Set(produced, c, 0)
    /\ bridgeIn' = Set(bridgeIn, c, <<>>)
    /\ opc' = Set(opc, c, "idle")
    /\ ipc' = Set(ipc, c, "idle")
    /\ bufs' = Set(bufs, c, NoBufs)
    /\ clientState' = Set(clientState, c, "none")
    /\ inbox' = Set(inbox, c, <<>>)
    /\ sent' = Set(sent, c, 0)
    /\ toClient' = Set(toClient, c, <<>>)
    /\ cpc' = Set(cpc, c, [k \in Closers |-> "idle"])
    /\ exitedOwn' = Set(exitedOwn, c, FALSE)
    /\ effects' = Set(effects, c, NoEffects)
    /\ dispatched' = Set(dispatched, c, <<>>)

\* http.Error(w, "Maximum connections reached", http.StatusServiceUnavailable)
\* and the handler returns.
Reject(c) ==
    /\ hpc[c] = "rejected"
    /\ response' = Set(response, c, "503")
    /\ Returned(c)
    /\ UNCHANGED <<cfgVars, fVars, lVars, rVars, srvVars, transport, incs, decs, releases>>

\* releaseConnection, the handler's first defer and so its last step.
releaseConnection(c) ==
    /\ hpc[c] = "release"
    /\ releases' = Set(releases, c, releases[c] + 1)
    /\ IF LimitOff
       THEN UNCHANGED <<connCount, decs>>
       ELSE /\ connCount' = decrementConnCount
            /\ decs' = Set(decs, c, decs[c] + 1)
    /\ Returned(c)
    /\ UNCHANGED <<cfgVars, fVars, lVars, rVars, sessions, transport, response, incs>>

\* --------------------------------------------------------------- sessions
\* json.Unmarshal(payload, &resize)
Unmarshal(j) == [err |-> ~j.ok, cols |-> IF j.ok THEN j.cols ELSE 0, rows |-> IF j.ok THEN j.rows ELSE 0]

\* cols, rows := initialCols, initialRows; non-positive values fall back
SessionSize(sz) == <<IF sz[1] <= 0 THEN 80 ELSE sz[1], IF sz[2] <= 0 THEN 24 ELSE sz[2]>>

\* srv.sessions.Store(session.id, session) / srv.sessions.Delete(session.id)
Store(id, c) == [sessions EXCEPT ![id] = c]
Delete(id) == [sessions EXCEPT ![id] = NoSession]

\* What both constructors do on success: the bridge is created at the
\* session size, the backing program or process starts, the session gets an
\* id from the clock and is stored in the registry.
NewSession(c, id) ==
    /\ sessId' = Set(sessId, c, id)
    /\ size' = Set(size, c, SessionSize(initSize[c]))
    /\ ptySize' = Set(ptySize, c, SessionSize(initSize[c]))
    /\ procState' = Set(procState, c, "running")
    /\ sessions' = Store(id, c)
    /\ hpc' = Set(hpc, c, "start")
    /\ UNCHANGED <<response, clientState>>

\* Session creation failed: WebSocket closes the connection with
\* StatusInternalError, WebTransport just returns; the deferred releases run.
CreateFailed(c) ==
    /\ response' = Set(response, c, IF transport[c] = "ws" THEN "1011" ELSE "create_failed")
    /\ clientState' = Set(clientState, c, "closed")
    /\ hpc' = Set(hpc, c, "release")
    /\ UNCHANGED <<sessId, size, ptySize, procState, sessions>>

\* createSession (embedded program): newPlatformPty or the program handler
\* may fail.
createSession(c, ok, id) ==
    /\ hpc[c] = "create"
    /\ ~cmdMode
    /\ IF ok THEN NewSession(c, id) ELSE CreateFailed(c)
    /\ UNCHANGED <<cfgVars, fVars, lVars, rVars, connCount, transport, newCount, ctxDone, initSize,
                   desync, closed, sessDone, winch, teaSize, bgDone,
                   bridgeClosed, outPending, produced, bridgeIn, pVars, inbox,
                   sent, toClient, cpc, histVars>>

\* createCmdSession (spawned process): newCmdPlatformPty may fail.
createCmdSession(c, ok, id) ==
    /\ hpc[c] = "create"
    /\ cmdMode
    /\ IF ok THEN NewSession(c, id) ELSE CreateFailed(c)
    /\ UNCHANGED <<cfgVars, fVars, lVars, rVars, connCount, transport, newCount, ctxDone, initSize,
                   desync, closed, sessDone, winch, teaSize, bgDone,
                   bridgeClosed, outPending, produced, bridgeIn, pVars, inbox,
                   sent, toClient, cpc, histVars>>

\* Variant: the notification channel takes every value (no capacity limit).
ResizeQueued(c, cols, rows) ==
    /\ size' = Set(size, c, <<cols, rows>>)
    /\ ptySize' = IF bridgeClosed[c] THEN ptySize ELSE Set(ptySize, c, <<cols, rows>>)
    /\ winch' = Set(winch, c, Append(winch[c], <<cols, rows>>))
    /\ teaSize' = IF cmdMode THEN teaSize ELSE Set(teaSize, c, <<cols, rows>>)

\* Variant: a plain (blocking) send on the notification channel.
ResizeBlocking(c, cols, rows) ==
    /\ Len(winch[c]) < 1
    /\ size' = Set(size, c, <<cols, rows>>)
    /\ ptySize' = IF bridgeClosed[c] THEN ptySize ELSE Set(ptySize, c, <<cols, rows>>)
    /\ winch' = Set(winch, c, <<<<cols, rows>>>>)
    /\ teaSize' = IF cmdMode THEN teaSize ELSE Set(teaSize, c, <<cols, rows>>)

\* webSession.Resize / cmdSession.Resize: stored size, bridge, then the
\* one-slot notification channel (non-blocking send); the embedded program
\* also gets a tea.WindowSizeMsg.
Resize(c, cols, rows) ==
    /\ size' = Set(size, c, <<cols, rows>>)
    /\ ptySize' = IF bridgeClosed[c] THEN ptySize ELSE Set(ptySize, c, <<cols, rows>>)
    /\ winch' = IF Len(winch[c]) < 1 THEN Set(winch, c, <<<<cols, rows>>>>) ELSE winch
    /\ teaSize' = IF cmdMode THEN teaSize ELSE Set(teaSize, c, <<cols, rows>>)

\* webSession.Pty / cmdSession.Pty: the stored size
Pty(c) == size[c]

\* ------------------------------------------------------ message dispatcher
\* Variant: the input case does not look at the read-only flag.
processInputWritable(c, m) ==
    IF m.type = MsgInput
    THEN /\ bridgeIn' = IF ~bridgeClosed[c]
                        THEN Set(bridgeIn, c, bridgeIn[c] \o m.bytes)
                        ELSE bridgeIn
         /\ UNCHANGED <<size, ptySize, winch, teaSize>>
    ELSE IF m.type = MsgResize /\ ~Unmarshal(m.json).err
    THEN /\ Resize(c, Unmarshal(m.json).cols, Unmarshal(m.json).rows)
         /\ UNCHANGED bridgeIn
    ELSE UNCHANGED <<bridgeIn, size, ptySize, winch, teaSize>>

\* Variant: the resize case does not test the error of json.Unmarshal.
processInputUnchecked(c, m) ==
    IF m.type = MsgInput
    THEN /\ bridgeIn' = IF ~readOnly /\ ~bridgeClosed[c]
                        THEN Set(bridgeIn, c, bridgeIn[c] \o m.bytes)
                        ELSE bridgeIn
         /\ UNCHANGED <<size, ptySize, winch, teaSize>>
    ELSE IF m.type = MsgResize
    THEN /\ Resize(c, Unmarshal(m.json).cols, Unmarshal(m.json).rows)
         /\ UNCHANGED bridgeIn
    ELSE UNCHANGED <<bridgeIn, size, ptySize, winch, teaSize>>

\* Variant: a payload is applied ahead of the payloads applied before it.
processInputOvertaking(c, m) ==
    IF m.type = MsgInput
    THEN /\ bridgeIn' = IF ~readOnly /\ ~bridgeClosed[c]
                        THEN Set(bridgeIn, c, m.bytes \o bridgeIn[c])
                        ELSE bridgeIn
         /\ UNCHANGED <<size, ptySize, winch, teaSize>>
    ELSE IF m.type = MsgResize /\ ~Unmarshal(m.json).err
    THEN /\ Resize(c, Unmarshal(m.json).cols, Unmarshal(m.json).rows)
         /\ UNCHANGED bridgeIn
    ELSE UNCHANGED <<bridgeIn, size, ptySize, winch, teaSize>>

\* Variant: a switch with a default case that treats the message as input.
processInputDefault(c, m) ==
    IF m = EmptyMsg
    THEN UNCHANGED <<bridgeIn, size, ptySize, winch, teaSize>>
    ELSE IF m.type = MsgResize /\ ~Unmarshal(m.json).err
    THEN /\ Resize(c, Unmarshal(m.json).cols, Unmarshal(m.json).rows)
         /\ UNCHANGED bridgeIn
    ELSE IF m.type = MsgResize \/ m.type = MsgPing
    THEN UNCHANGED <<bridgeIn, size, ptySize, winch, teaSize>>
    ELSE /\ bridgeIn' = IF ~readOnly /\ ~bridgeClosed[c]
                        THEN Set(bridgeIn, c, bridgeIn[c] \o m.bytes)
                        ELSE bridgeIn
         /\ UNCHANGED <<size, ptySize, winch, teaSize>>

\* processInput(data, session, info): an empty message returns at once; input is written to the
\* bridge unless the server is read-only; a resize that parses is applied;
\* a ping and every other type fall out of the switch.
processInput(c, m) ==
    IF m = EmptyMsg
    THEN UNCHANGED <<bridgeIn, size, ptySize, winch, teaSize>>
    ELSE IF m.type = MsgInput
    THEN /\ bridgeIn' = IF ~readOnly /\ ~bridgeClosed[c]
                        THEN Set(bridgeIn, c, bridgeIn[c] \o m.bytes)
                        ELSE bridgeIn
         /\ UNCHANGED <<size, ptySize, winch, teaSize>>
    ELSE IF m.type = MsgResize /\ ~Unmarshal(m.json).err
    THEN /\ Resize(c, Unmarshal(m.json).cols, Unmarshal(m.json).rows)
         /\ UNCHANGED bridgeIn
    ELSE UNCHANGED <<bridgeIn, size, ptySize, winch, teaSize>>

\* ------------------------------------------------------------ buffer pools
\* streamOutputTo...: readBufPool.Get() and writeBufPool.Get() at the start
\* of the output pump.
GetOutputBufs(c) == Set(bufs, c, [bufs[c] EXCEPT !.read = @ + 1, !.write = @ + 1])

\* Variant: only the read buffer goes back to its pool.
PutOutputBufsReadOnly(c) == Set(bufs, c, [bufs[c] EXCEPT !.read = @ - 1])

\* defer readBufPool.Put(bufPtr), defer writeBufPool.Put(msgPtr): run when
\* the output pump returns.
PutOutputBufs(c) == Set(bufs, c, [bufs[c] EXCEPT !.read = @ - 1, !.write = @ - 1])

\* A message of at most 256 bytes gets a buffer of smallBufPool.  The
\* messages of class "small" used here (a key, a ping, a resize of some
\* twenty bytes, the empty message) are all within 256 bytes.
Pooled(m) == m.len = "small"

\* handleWebTransportInput: smallBufPool.Get() for a message of at most 256
\* bytes; its Put is deferred.
GetSmallBuf(c, m) ==
    IF transport[c] = "wt" /\ Pooled(m)
    THEN Set(bufs, c, [bufs[c] EXCEPT !.small = @ + 1])
    ELSE bufs

\* Every deferred smallBufPool.Put runs when the input pump returns.
PutSmallBufs(c) == Set(bufs, c, [bufs[c] EXCEPT !.small = 0])

\* ------------------------------------------------------ transport handlers
\* Variant: the two fields of the resize message taken the wrong way round.
InitialSizeSwapped(m) ==
    IF m.type = MsgResize /\ ~Unmarshal(m.json).err
    THEN <<Unmarshal(m.json).rows, Unmarshal(m.json).cols>>
    ELSE DefaultSize

\* The size the handler takes from the first frame it read: a resize message
\* that parses gives its (cols, rows), anything else the default 80 x 24.
InitialSize(m) ==
    IF m.type = MsgResize /\ ~Unmarshal(m.json).err
    THEN <<Unmarshal(m.json).cols, Unmarshal(m.json).rows>>
    ELSE DefaultSize

\* Variant: the failure path returns before releaseConnection was deferred.
HandlerAcceptNoRelease(c, outcome) ==
    /\ hpc[c] = "admitted"
    /\ outcome \in {"ok", "accept_failed"} \cup (IF transport[c] = "wt" THEN {"stream_failed"} ELSE {})
    /\ IF outcome = "ok"
       THEN /\ hpc' = Set(hpc, c, "negotiate")
            /\ UNCHANGED <<response, clientState>>
       ELSE /\ hpc' = Set(hpc, c, "done")
            /\ response' = Set(response, c, outcome)
            /\ clientState' = Set(clientState, c, "none")
    /\ UNCHANGED <<cfgVars, fVars, lVars, rVars, srvVars, transport, newCount, ctxDone, initSize,
                   desync, sVars, bVars, pVars, inbox, sent, toClient, cpc,
                   histVars>>

\* websocket.Accept / wtServer.Upgrade and wtSession.AcceptStream: on failure
\* the handler returns and only its deferred releaseConnection runs.
HandlerAccept(c, outcome) ==
    /\ hpc[c] = "admitted"
    /\ outcome \in {"ok", "accept_failed"} \cup (IF transport[c] = "wt" THEN {"stream_failed"} ELSE {})
    /\ IF outcome = "ok"
       THEN /\ hpc' = Set(hpc, c, "negotiate")
            /\ UNCHANGED <<response, clientState>>
       ELSE /\ hpc' = Set(hpc, c, "release")
            /\ response' = Set(response, c, outcome)
            /\ clientState' = Set(clientState, c, "closed")
    /\ UNCHANGED <<cfgVars, fVars, lVars, rVars, srvVars, transport, newCount, ctxDone, initSize,
                   desync, sVars, bVars, pVars, inbox, sent, toClient, cpc,
                   histVars>>

\* handleWebSocket, initial size: conn.Read under a 5 s timeout.  A message
\* read is consumed whatever its type; a timeout or a read error leaves the
\* default.
NegotiateWebSocket(c) ==
    /\ hpc[c] = "negotiate"
    /\ transport[c] = "ws"
    /\ IF inbox[c] # <<>>
       THEN /\ initSize' = Set(initSize, c, InitialSize(Head(inbox[c])))
            /\ inbox' = Set(inbox, c, Tail(inbox[c]))
       ELSE /\ initSize' = Set(initSize, c, DefaultSize)
            /\ UNCHANGED inbox
    /\ hpc' = Set(hpc, c, "create")
    /\ UNCHANGED <<cfgVars, fVars, lVars, rVars, srvVars, transport, newCount, ctxDone, response,
                   desync, sVars, bVars, pVars, clientState, sent, toClient,
                   cpc, histVars>>

\* handleWebTransport, initial size: io.ReadFull of the 4-byte length with no
\* deadline, then the payload only if the length is below 1024.  A longer
\* frame keeps its payload in the stream, where the input pump will read it
\* as if it began with a length field.
NegotiateWebTransport(c) ==
    /\ hpc[c] = "negotiate"
    /\ transport[c] = "wt"
    /\ IF inbox[c] # <<>>
       THEN /\ inbox' = Set(inbox, c, Tail(inbox[c]))
            /\ IF Head(inbox[c]).len = "small"
               THEN /\ initSize' = Set(initSize, c, InitialSize(Head(inbox[c])))
                    /\ UNCHANGED desync
               ELSE /\ initSize' = Set(initSize, c, DefaultSize)
                    /\ desync' = Set(desync, c, TRUE)
       ELSE /\ clientState[c] = "gone"
            /\ initSize' = Set(initSize, c, DefaultSize)
            /\ UNCHANGED <<inbox, desync>>
    /\ hpc' = Set(hpc, c, "create")
    /\ UNCHANGED <<cfgVars, fVars, lVars, rVars, srvVars, transport, newCount, ctxDone, response,
                   sVars, bVars, pVars, clientState, sent, toClient, cpc,
                   histVars>>

\* A write to the client: it arrives if the client is still there.  A
\* WebSocket write takes the handler context and may fail once that is
\* cancelled; a WebTransport stream write takes no context.
WriteOutcome(c, ok) ==
    IF ok THEN clientState[c] = "open"
    ELSE clientState[c] # "open" \/ (transport[c] = "ws" /\ ctxDone[c])

\* Variant: a write overtakes the messages written before it.
DeliverOvertaking(c, ok, msg) == IF ok THEN Set(toClient, c, <<msg>> \o toClient[c]) ELSE toClient

Deliver(c, ok, msg) == IF ok THEN Set(toClient, c, Append(toClient[c], msg)) ELSE toClient

\* Variant: the pumps are launched without the options frame being written.
HandlerStartNoOptions(c, ok) ==
    /\ hpc[c] = "start"
    /\ WriteOutcome(c, ok)
    /\ opc' = Set(opc, c, "head")
    /\ ipc' = Set(ipc, c, "head")
    /\ bufs' = GetOutputBufs(c)
    /\ hpc' = Set(hpc, c, "pumps")
    /\ UNCHANGED <<cfgVars, fVars, lVars, rVars, srvVars, transport, newCount, ctxDone, response,
                   initSize, desync, sVars, bVars, clientState, inbox, sent,
                   toClient, cpc, histVars>>

\* The options frame (its write result is ignored), then the two pumps are
\* launched and the handler waits for both.
HandlerStart(c, ok) ==
    /\ hpc[c] = "start"
    /\ WriteOutcome(c, ok)
    /\ toClient' = Deliver(c, ok, ServerMsg(MsgOptions, <<readOnly>>))
    /\ opc' = Set(opc, c, "head")
    /\ ipc' = Set(ipc, c, "head")
    /\ bufs' = GetOutputBufs(c)
    /\ hpc' = Set(hpc, c, "pumps")
    /\ UNCHANGED <<cfgVars, fVars, lVars, rVars, srvVars, transport, newCount, ctxDone, response,
                   initSize, desync, sVars, bVars, clientState, inbox, sent,
                   cpc, histVars>>

\* Variant: the handler goes on as soon as one pump has returned.
HandlerWaitEither(c) ==
    /\ hpc[c] = "pumps"
    /\ opc[c] = "done" \/ ipc[c] = "done"
    /\ IF transport[c] = "ws"
       THEN /\ hpc' = Set(hpc, c, "closing")
            /\ cpc' = [cpc EXCEPT ![c][1] = "check"]
       ELSE /\ hpc' = Set(hpc, c, "wtwait")
            /\ UNCHANGED cpc
    /\ UNCHANGED <<cfgVars, fVars, lVars, rVars, srvVars, transport, newCount, ctxDone, response,
                   initSize, desync, sVars, bVars, pVars, cVars, histVars>>

\* wg.Wait(): both pumps have returned.  The WebSocket handler returns and
\* its defers run, closeFunc first; the WebTransport handler first waits for
\* the client's session to end.
HandlerWait(c) ==
    /\ hpc[c] = "pumps"
    /\ opc[c] = "done" /\ ipc[c] = "done"
    /\ IF transport[c] = "ws"
       THEN /\ hpc' = Set(hpc, c, "closing")
            /\ cpc' = [cpc EXCEPT ![c][1] = "check"]
       ELSE /\ hpc' = Set(hpc, c, "wtwait")
            /\ UNCHANGED cpc
    /\ UNCHANGED <<cfgVars, fVars, lVars, rVars, srvVars, transport, newCount, ctxDone, response,
                   initSize, desync, sVars, bVars, pVars, cVars, histVars>>

\* <-wtSession.Context().Done()
WebTransportSessionDone(c) ==
    /\ hpc[c] = "wtwait"
    /\ clientState[c] = "gone"
    /\ hpc' = Set(hpc, c, "closing")
    /\ cpc' = [cpc EXCEPT ![c][1] = "check"]
    /\ UNCHANGED <<cfgVars, fVars, lVars, rVars, srvVars, transport, newCount, ctxDone, response,
                   initSize, desync, sVars, bVars, pVars, cVars, histVars>>

\* The defers after closeFunc: cancel(), then the connection is closed
\* (conn.CloseNow / stream.Close, wtSession.CloseWithError).
HandlerReturn(c) ==
    /\ hpc[c] = "closing"
    /\ cpc[c][1] = "ret"
    /\ ctxDone' = Set(ctxDone, c, TRUE)
    /\ sessDone' = Set(sessDone, c, TRUE)
    /\ clientState' = Set(clientState, c, IF clientState[c] = "open" THEN "closed" ELSE clientState[c])
    /\ hpc' = Set(hpc, c, "release")
    /\ UNCHANGED <<cfgVars, fVars, lVars, rVars, srvVars, transport, newCount, response, initSize,
                   desync, sessId, size, closed, winch, teaSize, bVars, pVars,
                   inbox, sent, toClient, cpc, histVars>>

\* ------------------------------------------------------------------ pumps
\* A pump returns: defer cancel() cancels the handler context and with it the
\* session context derived from it; defer wg.Done().
Cancel(c) ==
    /\ ctxDone' = Set(ctxDone, c, TRUE)
    /\ sessDone' = Set(sessDone, c, TRUE)

\* Head of the output loop: the select over ctx.Done(), session.Done() and
\* default.  With several cases ready Go picks any of them.
streamOutputHead(c, branch, ok) ==
    /\ opc[c] = "head"
    /\ \/ /\ branch = "ctx"
          /\ ctxDone[c]
          /\ ~ok
          /\ opc' = Set(opc, c, "done")
          /\ Cancel(c)
          /\ UNCHANGED toClient
       \/ /\ branch = "session"
          /\ sessDone[c]
          /\ WriteOutcome(c, ok)
          /\ toClient' = Deliver(c, ok, ServerMsg(MsgClose, <<>>))
          /\ opc' = Set(opc, c, "done")
          /\ Cancel(c)
       \/ /\ branch = "default"
          /\ ~ctxDone[c] /\ ~sessDone[c]
          /\ ~ok
          /\ opc' = Set(opc, c, "read")
          /\ UNCHANGED <<ctxDone, sessDone, toClient>>
    /\ bufs' = IF opc'[c] = "done" THEN PutOutputBufs(c) ELSE bufs
    /\ UNCHANGED <<cfgVars, fVars, lVars, rVars, srvVars, transport, hpc, newCount, response,
                   initSize, desync, sessId, size, closed, winch, teaSize,
                   bVars, ipc, clientState, inbox, sent, cpc, histVars>>

\* Variant: a failed read makes the pump return without a close message.
streamOutputReadNoClose(c, ok) ==
    /\ opc[c] = "read"
    /\ WriteOutcome(c, ok)
    /\ \/ /\ outPending[c] # <<>>
          /\ ~bridgeClosed[c]
          /\ outPending' = Set(outPending, c, Tail(outPending[c]))
          /\ toClient' = Deliver(c, ok, ServerMsg(MsgOutput, <<Head(outPending[c])>>))
          /\ IF ok
             THEN /\ opc' = Set(opc, c, "head")
                  /\ UNCHANGED <<ctxDone, sessDone>>
             ELSE /\ opc' = Set(opc, c, "done")
                  /\ Cancel(c)
       \/ /\ bridgeClosed[c] \/ procState[c] = "exited"
          /\ opc' = Set(opc, c, "done")
          /\ Cancel(c)
          /\ UNCHANGED <<outPending, toClient>>
    /\ bufs' = IF opc'[c] = "done" THEN PutOutputBufs(c) ELSE bufs
    /\ UNCHANGED <<cfgVars, fVars, lVars, rVars, srvVars, transport, hpc, newCount, response,
                   initSize, desync, sessId, size, closed, winch, teaSize,
                   procState, bgDone, bridgeClosed, ptySize, produced,
                   bridgeIn, ipc, clientState, inbox, sent, cpc, histVars>>

\* session.OutputReader().Read(buf): blocks until the bridge has bytes or the
\* read fails (bridge closed, or the far side of the bridge is gone).  A chunk
\* is sent as an output message; on a read error a close message is sent and
\* the pump returns; on a write error the pump returns.
streamOutputRead(c, ok) ==
    /\ opc[c] = "read"
    /\ WriteOutcome(c, ok)
    /\ \/ /\ outPending[c] # <<>>
          /\ ~bridgeClosed[c]
          /\ outPending' = Set(outPending, c, Tail(outPending[c]))
          /\ toClient' = Deliver(c, ok, ServerMsg(MsgOutput, <<Head(outPending[c])>>))
          /\ IF ok
             THEN /\ opc' = Set(opc, c, "head")
                  /\ UNCHANGED <<ctxDone, sessDone>>
             ELSE /\ opc' = Set(opc, c, "done")
                  /\ Cancel(c)
       \/ /\ bridgeClosed[c] \/ procState[c] = "exited"
          /\ toClient' = Deliver(c, ok, ServerMsg(MsgClose, <<>>))
          /\ opc' = Set(opc, c, "done")
          /\ Cancel(c)
          /\ UNCHANGED outPending
    /\ bufs' = IF opc'[c] = "done" THEN PutOutputBufs(c) ELSE bufs
    /\ UNCHANGED <<cfgVars, fVars, lVars, rVars, srvVars, transport, hpc, newCount, response,
                   initSize, desync, sessId, size, closed, winch, teaSize,
                   procState, bgDone, bridgeClosed, ptySize, produced,
                   bridgeIn, ipc, clientState, inbox, sent, cpc, histVars>>

\* Head of the input loop: select over ctx.Done(), session.Done(), default.
handleInputHead(c) ==
    /\ ipc[c] = "head"
    /\ IF ctxDone[c] \/ sessDone[c]
       THEN /\ ipc' = Set(ipc, c, "done")
            /\ Cancel(c)
       ELSE /\ ipc' = Set(ipc, c, "read")
            /\ UNCHANGED <<ctxDone, sessDone>>
    /\ bufs' = IF ipc'[c] = "done" THEN PutSmallBufs(c) ELSE bufs
    /\ UNCHANGED <<cfgVars, fVars, lVars, rVars, srvVars, transport, hpc, newCount, response,
                   initSize, desync, sessId, size, closed, winch, teaSize,
                   bVars, opc, cVars, cpc, histVars>>

\* The input pump returns from its read.
InputReturn(c) ==
    /\ ipc' = Set(ipc, c, "done")
    /\ Cancel(c)
    /\ UNCHANGED <<bridgeIn, size, ptySize, winch, teaSize, inbox, dispatched>>

\* The input pump read message m, dispatches it and loops.
InputDispatch(c, m) ==
    /\ processInput(c, m)
    /\ dispatched' = Set(dispatched, c, Append(dispatched[c], m))
    /\ ipc' = Set(ipc, c, "head")
    /\ UNCHANGED <<ctxDone, sessDone>>

\* handleWebSocketInput: conn.Read(ctx) gives the next message, or fails when
\* the client is gone or the context is cancelled.
handleWebSocketInput(c, fail) ==
    /\ transport[c] = "ws"
    /\ ipc[c] = "read"
    /\ IF fail
       THEN /\ ctxDone[c] \/ (inbox[c] = <<>> /\ clientState[c] # "open")
            /\ InputReturn(c)
       ELSE /\ inbox[c] # <<>>
            /\ inbox' = Set(inbox, c, Tail(inbox[c]))
            /\ InputDispatch(c, Head(inbox[c]))
    /\ UNCHANGED bufs
    /\ UNCHANGED <<cfgVars, fVars, lVars, rVars, srvVars, transport, hpc, newCount, response,
                   initSize, desync, sessId, closed, procState, bgDone,
                   bridgeClosed, outPending, produced, opc, clientState,
                   sent, toClient, cpc, incs, decs, releases,
                   exitedOwn, effects>>

\* Variant: the declared length is not tested against the cap.
handleWebTransportInputNoCap(c, fail, g) ==
    /\ transport[c] = "wt"
    /\ ipc[c] = "read"
    /\ IF fail
       THEN /\ clientState[c] # "open" /\ inbox[c] = <<>> /\ ~desync[c]
            /\ InputReturn(c)
            /\ UNCHANGED desync
       ELSE /\ IF desync[c] THEN g \in ClientMsgs ELSE inbox[c] # <<>> /\ g = Head(inbox[c])
            /\ inbox' = IF desync[c] THEN inbox ELSE Set(inbox, c, Tail(inbox[c]))
            /\ desync' = Set(desync, c, FALSE)
            /\ InputDispatch(c, g)
    /\ bufs' = IF ipc'[c] = "done" THEN PutSmallBufs(c) ELSE GetSmallBuf(c, g)
    /\ UNCHANGED <<cfgVars, fVars, lVars, rVars, srvVars, transport, hpc, newCount, response,
                   initSize, sessId, closed, procState, bgDone,
                   bridgeClosed, outPending, produced, opc, clientState,
                   sent, toClient, cpc, incs, decs, releases,
                   exitedOwn, effects>>

\* handleWebTransportInput: io.ReadFull(stream, lenBuf) takes no context; it
\* gives the next frame's length or fails when the client is gone.  A length
\* above 1 MiB makes the pump return.  After the handler left a payload in
\* the stream the pump reads payload bytes as a length: what it decodes from
\* the leftover payload is some frame g, after which the stream is taken to
\* be back at a frame boundary.
handleWebTransportInput(c, fail, g) ==
    /\ transport[c] = "wt"
    /\ ipc[c] = "read"
    /\ IF fail
       THEN /\ clientState[c] # "open" /\ inbox[c] = <<>> /\ ~desync[c]
            /\ InputReturn(c)
            /\ UNCHANGED desync
       ELSE /\ IF desync[c] THEN g \in ClientMsgs ELSE inbox[c] # <<>> /\ g = Head(inbox[c])
            /\ inbox' = IF desync[c] THEN inbox ELSE Set(inbox, c, Tail(inbox[c]))
            /\ desync' = Set(desync, c, FALSE)
            /\ IF g.len = "over"
               THEN /\ ipc' = Set(ipc, c, "done")
                    /\ Cancel(c)
                    /\ UNCHANGED <<bridgeIn, size, ptySize, winch, teaSize, dispatched>>
               ELSE InputDispatch(c, g)
    /\ bufs' = IF ipc'[c] = "done" THEN PutSmallBufs(c) ELSE GetSmallBuf(c, g)
    /\ UNCHANGED <<cfgVars, fVars, lVars, rVars, srvVars, transport, hpc, newCount, response,
                   initSize, sessId, closed, procState, bgDone,
                   bridgeClosed, outPending, produced, opc, clientState,
                   sent, toClient, cpc, incs, decs, releases,
                   exitedOwn, effects>>

\* ---------------------------------------------------------- session close
\* Variant: the closed flag is set without being tested first.
closeSetUnchecked(c, k) ==
    /\ cpc[c][k] = "check"
    /\ closed' = Set(closed, c, TRUE)
    /\ cpc' = [cpc EXCEPT ![c][k] = IF cmdMode THEN "cancel" ELSE "quit"]
    /\ UNCHANGED <<cfgVars, fVars, lVars, rVars, srvVars, hVars, sessId, size, sessDone, winch,
                   teaSize, bVars, pVars, cVars, histVars>>

\* closeSession / closeCmdSession, called by caller k on the session of c.
\* Under session.mu: return if closed, else set closed.
closeCheckAndSet(c, k) ==
    /\ cpc[c][k] = "check"
    /\ IF closed[c]
       THEN /\ cpc' = [cpc EXCEPT ![c][k] = "ret"]
            /\ UNCHANGED closed
       ELSE /\ closed' = Set(closed, c, TRUE)
            /\ cpc' = [cpc EXCEPT ![c][k] = IF cmdMode THEN "cancel" ELSE "quit"]
    /\ UNCHANGED <<cfgVars, fVars, lVars, rVars, srvVars, hVars, sessId, size, sessDone, winch,
                   teaSize, bVars, pVars, cVars, histVars>>

Effect(c, f) == Set(effects, c, [effects[c] EXCEPT ![f] = @ + 1])

\* session.program.Quit() (closeSession only): the program is told to quit;
\* its Run returns later, in the program's own goroutine.
closeQuit(c, k) ==
    /\ cpc[c][k] = "quit"
    /\ procState' = Set(procState, c, IF procState[c] = "running" THEN "quitting" ELSE procState[c])
    /\ effects' = Effect(c, "quit")
    /\ cpc' = [cpc EXCEPT ![c][k] = "cancel"]
    /\ UNCHANGED <<cfgVars, fVars, lVars, rVars, srvVars, hVars, sVars, bgDone, bridgeClosed,
                   ptySize, outPending, produced, bridgeIn, pVars, cVars,
                   incs, decs, releases, exitedOwn, dispatched>>

\* session.cancelFunc()
closeCancel(c, k) ==
    /\ cpc[c][k] = "cancel"
    /\ sessDone' = Set(sessDone, c, TRUE)
    /\ effects' = Effect(c, "cancel")
    /\ cpc' = [cpc EXCEPT ![c][k] = "platform"]
    /\ UNCHANGED <<cfgVars, fVars, lVars, rVars, srvVars, hVars, sessId, size, closed, winch,
                   teaSize, bVars, pVars, cVars, incs, decs, releases,
                   exitedOwn, dispatched>>

\* session.platform.Close(): the bridge is closed; cmdPlatformPty.Close also
\* kills the process and waits for it.
closePlatform(c, k) ==
    /\ cpc[c][k] = "platform"
    /\ bridgeClosed' = Set(bridgeClosed, c, TRUE)
    /\ procState' = Set(procState, c, IF cmdMode /\ procState[c] = "running" THEN "exited" ELSE procState[c])
    /\ effects' = Effect(c, "platform")
    /\ cpc' = [cpc EXCEPT ![c][k] = "delete"]
    /\ UNCHANGED <<cfgVars, fVars, lVars, rVars, srvVars, hVars, sVars, bgDone, ptySize,
                   outPending, produced, bridgeIn, pVars, cVars, incs, decs,
                   releases, exitedOwn, dispatched>>

\* srv.sessions.Delete(session.id), and the call returns.
closeDelete(c, k) ==
    /\ cpc[c][k] = "delete"
    /\ sessions' = Delete(sessId[c])
    /\ effects' = Effect(c, "delete")
    /\ cpc' = [cpc EXCEPT ![c][k] = "ret"]
    /\ UNCHANGED <<cfgVars, fVars, lVars, rVars, connCount, hVars, sVars, bVars, pVars, cVars,
                   incs, decs, releases, exitedOwn, dispatched>>

closeSession(c, k) ==
    /\ ~cmdMode
    /\ closeCheckAndSet(c, k) \/ closeQuit(c, k) \/ closeCancel(c, k) \/ closePlatform(c, k) \/ closeDelete(c, k)

closeCmdSession(c, k) ==
    /\ cmdMode
    /\ closeCheckAndSet(c, k) \/ closeCancel(c, k) \/ closePlatform(c, k) \/ closeDelete(c, k)

\* ------------------------------------------- program, process and client
Live(c) == hpc[c] \in {"start", "pumps", "wtwait", "closing"}
Connected(c) == hpc[c] \in {"negotiate", "create", "start", "pumps", "wtwait"}

\* The program or process writes a chunk of output to its side of the
\* bridge.
ProgramWrite(c) ==
    /\ Live(c)
    /\ procState[c] = "running" /\ ~bridgeClosed[c]
    /\ produced[c] < MaxChunks
    /\ outPending[c] = <<>>
    /\ produced' = Set(produced, c, produced[c] + 1)
    /\ outPending' = Set(outPending, c, <<produced[c] + 1>>)
    /\ UNCHANGED <<cfgVars, fVars, lVars, rVars, srvVars, hVars, sVars, procState, bgDone,
                   bridgeClosed, ptySize, bridgeIn, pVars, cVars, cpc,
                   histVars>>

\* Nothing has ended the session of c yet: the client is there, no context
\* is cancelled, both pumps run (or are about to be launched).
Healthy(c) ==
    /\ hpc[c] \in {"start", "pumps"}
    /\ clientState[c] = "open"
    /\ ~ctxDone[c] /\ ~sessDone[c]
    /\ opc[c] # "done" /\ ipc[c] # "done"

\* The program's Run returns, on its own or after Quit, or the spawned
\* process exits on its own (exitedOwn records that it did so in a healthy
\* session).
ProgramExit(c) ==
    /\ Live(c)
    /\ procState[c] \in {"running", "quitting"}
    /\ procState' = Set(procState, c, "exited")
    /\ exitedOwn' = Set(exitedOwn, c, Healthy(c))
    /\ UNCHANGED <<cfgVars, fVars, lVars, rVars, srvVars, hVars, sVars, bgDone, bridgeClosed,
                   ptySize, outPending, produced, bridgeIn, pVars, cVars,
                   cpc, incs, decs, releases, effects, dispatched>>

\* Variant: the background goroutine ends without calling cancel().
BackgroundNoCancel(c) ==
    /\ Live(c)
    /\ procState[c] = "exited"
    /\ ~bgDone[c]
    /\ bgDone' = Set(bgDone, c, TRUE)
    /\ bridgeClosed' = IF cmdMode THEN bridgeClosed ELSE Set(bridgeClosed, c, TRUE)
    /\ UNCHANGED <<cfgVars, fVars, lVars, rVars, srvVars, hVars, sessId, size, closed, sessDone,
                   winch, teaSize, procState, ptySize, outPending, produced,
                   bridgeIn, pVars, cVars, cpc, histVars>>

\* The session's background goroutine after the exit.  createSession: the
\* deferred platform.Close() and cancel().  createCmdSession: the watcher's
\* platform.Wait() returns and it calls cancel().
Background(c) ==
    /\ Live(c)
    /\ procState[c] = "exited"
    /\ ~bgDone[c]
    /\ bgDone' = Set(bgDone, c, TRUE)
    /\ sessDone' = Set(sessDone, c, TRUE)
    /\ bridgeClosed' = IF cmdMode THEN bridgeClosed ELSE Set(bridgeClosed, c, TRUE)
    /\ UNCHANGED <<cfgVars, fVars, lVars, rVars, srvVars, hVars, sessId, size, closed, winch,
                   teaSize, procState, ptySize, outPending, produced,
                   bridgeIn, pVars, cVars, cpc, histVars>>

\* The application takes the pending value from WindowChanges().
WindowChanges(c) ==
    /\ Live(c)
    /\ winch[c] # <<>>
    /\ winch' = Set(winch, c, Tail(winch[c]))
    /\ UNCHANGED <<cfgVars, fVars, lVars, rVars, srvVars, hVars, sessId, size, closed, sessDone,
                   teaSize, bVars, pVars, cVars, cpc, histVars>>

\* The client sends protocol message m, one of at most n.
Send(c, m, n) ==
    /\ Connected(c)
    /\ clientState[c] = "open"
    /\ sent[c] < n
    /\ inbox' = Set(inbox, c, Append(inbox[c], m))
    /\ sent' = Set(sent, c, sent[c] + 1)
    /\ UNCHANGED <<cfgVars, fVars, lVars, rVars, srvVars, hVars, sVars, bVars, pVars, clientState,
                   toClient, cpc, histVars>>

\* The client sends a protocol message.
ClientSend(c, m) == m \in MsgsOn(transport[c]) /\ Send(c, m, MaxClientMsgs)

\* The client sends a message of a burst.
ClientBurst(c, m) == m \in BurstMsgs /\ Send(c, m, MaxBurst)

\* The client sends a frame of the framing scenario.
ClientFrame(c, m) == m \in FrameMsgs /\ m \in MsgsOn(transport[c]) /\ Send(c, m, MaxClientMsgs)

\* The client disconnects (or the network drops the connection).
ClientDisconnect(c) ==
    /\ Connected(c)
    /\ clientState[c] = "open"
    /\ clientState' = Set(clientState, c, "gone")
    /\ UNCHANGED <<cfgVars, fVars, lVars, rVars, srvVars, hVars, sVars, bVars, pVars, inbox, sent,
                   toClient, cpc, histVars>>

\* ---------------------------------------------------------- specification
\* time.Now().UnixNano() at session creation: a reading some live session
\* already got, or a new one (ids are only ever compared for equality, so
\* one new reading stands for all).
IdsInUse == {sessId[d] : d \in {e \in Conns : sessId[e] # NoSession}}
ClockReadings == IdsInUse \cup {i \in Ids : \A j \in Ids \ IdsInUse : i <= j}

\* Steps of an admitted or still unchecked connection c taken by the
\* server's own goroutines.
HandlerStep(c) ==
    \/ checkConnectionLimit(c)
    \/ \E o \in {"ok", "accept_failed", "stream_failed"} : HandlerAccept(c, o)
    \/ NegotiateWebSocket(c)
    \/ NegotiateWebTransport(c)
    \/ \E ok \in BOOLEAN, id \in ClockReadings : createSession(c, ok, id)
    \/ \E ok \in BOOLEAN, id \in ClockReadings : createCmdSession(c, ok, id)
    \/ \E ok \in BOOLEAN : HandlerStart(c, ok)
    \/ \E b \in {"ctx", "session", "default"}, ok \in BOOLEAN : streamOutputHead(c, b, ok)
    \/ \E ok \in BOOLEAN : streamOutputRead(c, ok)
    \/ handleInputHead(c)
    \/ \E fail \in BOOLEAN : handleWebSocketInput(c, fail)
    \/ \E fail \in BOOLEAN, g \in ClientMsgs : handleWebTransportInput(c, fail, g)
    \/ HandlerWait(c)
    \/ WebTransportSessionDone(c)
    \/ closeSession(c, 1)
    \/ closeCmdSession(c, 1)
    \/ HandlerReturn(c)
    \/ releaseConnection(c)
    \/ Background(c)

\* Steps of connection c taken by the server's own goroutines.
ServerStep(c) == Reject(c) \/ HandlerStep(c)

\* Steps of the world around connection c that need no traffic: a new
\* connection arrives, the client goes away, the backing program exits.
QuietWorld(c) ==
    \/ \E t \in {"ws", "wt"} : HandlerEnter(c, t)
    \/ ClientDisconnect(c)
    \/ ProgramExit(c)

\* Traffic: client messages, program output, the application reading its
\* resize notifications.
Traffic(c) ==
    \/ \E m \in ClientMsgs : ClientSend(c, m)
    \/ ProgramWrite(c)
    \/ WindowChanges(c)

\* Spec: all connection slots, served concurrently, with silent clients.
\* No input message is dispatched, so the read-only flag is left off.
InitQuiet == Init /\ ~readOnly

Next == \E c \in Conns : ServerStep(c) \/ QuietWorld(c)

Spec == InitQuiet /\ [][Next]_vars

\* SpecSession: one connection with its full traffic.  Alone it is never
\* over the limit, so the rejecting step is not among its steps.
NextSession == HandlerStep(1) \/ QuietWorld(1) \/ Traffic(1)

SpecSession == Init /\ [][NextSession]_vars

\* SpecClose: the close operation of one live session called by NumClosers
\* goroutines at once.  Caller 1 is the handler, whose pumps have returned;
\* the others stand for any further path that may call it.  The backing
\* program may still run or may already have exited.
InitClose ==
    /\ Serving
    /\ NoResize
    /\ NoFrames
    /\ maxConnections = 0
    /\ readOnly = FALSE
    /\ cmdMode \in BOOLEAN
    /\ connCount = 0
    /\ sessions = [i \in Ids |-> IF i = 1 THEN 1 ELSE NoSession]
    /\ transport = [c \in Conns |-> "ws"]
    /\ hpc = [c \in Conns |-> IF c = 1 THEN "closing" ELSE "idle"]
    /\ newCount = [c \in Conns |-> 0]
    /\ ctxDone = [c \in Conns |-> c = 1]
    /\ response = [c \in Conns |-> "none"]
    /\ initSize = [c \in Conns |-> NoSize]
    /\ desync = [c \in Conns |-> FALSE]
    /\ sessId = [c \in Conns |-> IF c = 1 THEN 1 ELSE NoSession]
    /\ size = [c \in Conns |-> IF c = 1 THEN DefaultSize ELSE NoSize]
    /\ closed = [c \in Conns |-> FALSE]
    /\ sessDone = [c \in Conns |-> c = 1]
    /\ winch = [c \in Conns |-> <<>>]
    /\ teaSize = [c \in Conns |-> NoSize]
    /\ procState \in {[c \in Conns |-> IF c = 1 THEN p ELSE "none"] : p \in {"running", "exited"}}
    /\ bgDone = [c \in Conns |-> FALSE]
    /\ bridgeClosed = [c \in Conns |-> FALSE]
    /\ ptySize = [c \in Conns |-> IF c = 1 THEN DefaultSize ELSE NoSize]
    /\ outPending = [c \in Conns |-> <<>>]
    /\ produced = [c \in Conns |-> 0]
    /\ bridgeIn = [c \in Conns |-> <<>>]
    /\ opc = [c \in Conns |-> IF c = 1 THEN "done" ELSE "idle"]
    /\ ipc = [c \in Conns |-> IF c = 1 THEN "done" ELSE "idle"]
    /\ bufs = [c \in Conns |-> NoBufs]
    /\ clientState = [c \in Conns |-> IF c = 1 THEN "gone" ELSE "none"]
    /\ inbox = [c \in Conns |-> <<>>]
    /\ sent = [c \in Conns |-> 0]
    /\ toClient = [c \in Conns |-> <<>>]
    /\ cpc = [c \in Conns |-> [k \in Closers |-> IF c = 1 THEN "check" ELSE "idle"]]
    /\ incs = [c \in Conns |-> 0]
    /\ decs = [c \in Conns |-> 0]
    /\ releases = [c \in Conns |-> 0]
    /\ exitedOwn = [c \in Conns |-> FALSE]
    /\ effects = [c \in Conns |-> NoEffects]
    /\ dispatched = [c \in Conns |-> <<>>]

NextClose ==
    \/ \E k \in Closers : closeSession(1, k)
    \/ \E k \in Closers : closeCmdSession(1, k)
    \/ ProgramExit(1)
    \/ Background(1)

SpecClose == InitClose /\ [][NextClose]_vars

\* The state in which the connections of L have just been started by
\* HandlerStart with their clients connected and silent: session created at
\* the default size and registered, options frame delivered, both pumps at
\* their loop heads.  The limit is off, so the counter is not in use.
InitRunning(L) ==
    /\ Serving
    /\ NoResize
    /\ NoFrames
    /\ maxConnections = 0
    /\ readOnly \in BOOLEAN
    /\ cmdMode \in BOOLEAN
    /\ connCount = 0
    /\ sessions = [i \in Ids |-> IF i \in L THEN i ELSE NoSession]
    /\ transport \in [Conns -> {"ws", "wt"}]
    /\ \A c \in Conns \ L : transport[c] = "ws"
    /\ hpc = [c \in Conns |-> IF c \in L THEN "pumps" ELSE "idle"]
    /\ newCount = [c \in Conns |-> 0]
    /\ ctxDone = [c \in Conns |-> FALSE]
    /\ response = [c \in Conns |-> "none"]
    /\ initSize = [c \in Conns |-> IF c \in L THEN DefaultSize ELSE NoSize]
    /\ desync = [c \in Conns |-> FALSE]
    /\ sessId = [c \in Conns |-> IF c \in L THEN c ELSE NoSession]
    /\ size = [c \in Conns |-> IF c \in L THEN DefaultSize ELSE NoSize]
    /\ closed = [c \in Conns |-> FALSE]
    /\ sessDone = [c \in Conns |-> FALSE]
    /\ winch = [c \in Conns |-> <<>>]
    /\ teaSize = [c \in Conns |-> NoSize]
    /\ procState = [c \in Conns |-> IF c \in L THEN "running" ELSE "none"]
    /\ bgDone = [c \in Conns |-> FALSE]
    /\ bridgeClosed = [c \in Conns |-> FALSE]
    /\ ptySize = [c \in Conns |-> IF c \in L THEN DefaultSize ELSE NoSize]
    /\ outPending = [c \in Conns |-> <<>>]
    /\ produced = [c \in Conns |-> 0]
    /\ bridgeIn = [c \in Conns |-> <<>>]
    /\ opc = [c \in Conns |-> IF c \in L THEN "head" ELSE "idle"]
    /\ ipc = [c \in Conns |-> IF c \in L THEN "head" ELSE "idle"]
    /\ bufs = [c \in Conns |-> IF c \in L THEN [NoBufs EXCEPT !.read = 1, !.write = 1] ELSE NoBufs]
    /\ clientState = [c \in Conns |-> IF c \in L THEN "open" ELSE "none"]
    /\ inbox = [c \in Conns |-> <<>>]
    /\ sent = [c \in Conns |-> 0]
    /\ toClient = [c \in Conns |-> IF c \in L THEN <<ServerMsg(MsgOptions, <<readOnly>>)>> ELSE <<>>]
    /\ cpc = [c \in Conns |-> [k \in Closers |-> "idle"]]
    /\ incs = [c \in Conns |-> 0]
    /\ decs = [c \in Conns |-> 0]
    /\ releases = [c \in Conns |-> 0]
    /\ exitedOwn = [c \in Conns |-> FALSE]
    /\ effects = [c \in Conns |-> NoEffects]
    /\ dispatched = [c \in Conns |-> <<>>]

\* The two pumps of connection c, reading frames of the set F.
PumpStep(c, F) ==
    \/ \E b \in {"ctx", "session", "default"}, ok \in BOOLEAN : streamOutputHead(c, b, ok)
    \/ \E ok \in BOOLEAN : streamOutputRead(c, ok)
    \/ handleInputHead(c)
    \/ \E fail \in BOOLEAN : handleWebSocketInput(c, fail)
    \/ \E fail \in BOOLEAN, g \in F : handleWebTransportInput(c, fail, g)

\* SpecBurst: one running session whose client sends a burst of input and
\* resize messages while the application may or may not be reading its
\* resize notifications.
InitBurst == InitRunning({1})

NextBurst ==
    \/ PumpStep(1, BurstMsgs)
    \/ \E m \in BurstMsgs : ClientBurst(1, m)
    \/ WindowChanges(1)
    \/ ClientDisconnect(1)
    \/ ProgramExit(1)
    \/ Background(1)

SpecBurst == InitBurst /\ [][NextBurst]_vars

\* SpecFrames: all connection slots hold running sessions whose programs
\* write output and whose clients send frames within and above the cap of the
\* length-prefixed transport.
InitFrames == InitRunning(Conns) /\ ~readOnly

NextFrames ==
    \E c \in Conns :
        \/ PumpStep(c, FrameMsgs)
        \/ \E m \in FrameMsgs : ClientFrame(c, m)
        \/ ProgramWrite(c)
        \/ HandlerWait(c)

SpecFrames == InitFrames /\ [][NextFrames]_vars

\* ============================================================== properties

\* ----------------------------------------------------------------------- C1
\* C1: with MaxConnections = N > 0, the connections that have passed
\* checkConnectionLimit and not yet run releaseConnection never number more
\* than N, whatever the interleaving of attempts and releases.
C1_AdmittedWithinLimit == ~LimitOff => NumAdmitted <= maxConnections

\* The limit is reached and a further attempt has just been turned away.
C1_Witness ==
    /\ maxConnections > 0
    /\ NumAdmitted = maxConnections
    /\ \E c \in Conns : hpc[c] = "rejected"

\* ----------------------------------------------------------------------- C2
\* C2: once one pump of a connection has returned, the connection's server
\* side can always take a further step by itself, so that the other pump
\* returns without a further byte from the bridge or message from the
\* client.
C2_OtherPumpReturns ==
    \A c \in Conns :
        (hpc[c] = "pumps" /\ (opc[c] = "done" \/ ipc[c] = "done")) => ENABLED ServerStep(c)

\* ----------------------------------------------------------------------- C3
\* C3: an admitted connection that has met a terminal condition (client
\* gone, program or process exited, a pump returned) is torn down by the
\* server's own steps: until its handler has returned, some server step of
\* the connection is enabled.
TerminalCondition(c) ==
    \/ clientState[c] = "gone"
    \/ procState[c] = "exited"
    \/ opc[c] = "done"
    \/ ipc[c] = "done"

C3_TornDown ==
    \A c \in Conns :
        (hpc[c] \in {"pumps", "wtwait", "closing", "release"} /\ TerminalCondition(c))
            => ENABLED ServerStep(c)

Entering(c) == hpc[c] \in {"idle", "done"} /\ hpc'[c] \notin {"idle", "done"}

Admissible(c) == hpc[c] = "chk" /\ ~OverLimit(newCount[c])
NumHolding == Cardinality({c \in Conns : Admitted(c) \/ Admissible(c)})

C6_FreedCapacityAdmitsNext ==
    [][\A c \in Conns :
        (Entering(c) /\ ~LimitOff /\ NumHolding < maxConnections)
            => ~OverLimit(newCount'[c])
      ]_vars

\* ----------------------------------------------------------------------- C7
\* C7: with MaxConnections = 0 no attempt is ever checked against the
\* counter, rejected or answered 503, however many connections are live.
C7_UnlimitedAdmitsAll ==
    maxConnections = 0 =>
        \A c \in Conns : hpc[c] \notin {"chk", "rejected"} /\ response[c] # "503"

\* Every slot holds an admitted connection at once, with the limit off.
C7_Witness == maxConnections = 0 /\ NumAdmitted = NumConns

\* ----------------------------------------------------------------------- C8
\* C8: of the racing calls of the close operation on a session at most one
\* is past the closed-flag test at any time, each side effect (program
\* quit, context cancel, bridge close, registry removal) is executed at most
\* once, and once all calls have returned each was executed exactly once
\* (quit: embedded program only) and the registry entry is gone.
PastCheck(c) == {k \in Closers : cpc[c][k] \in {"quit", "cancel", "platform", "delete"}}
AllReturned(c) == \A k \in Closers : cpc[c][k] = "ret"

C8_CloseIdempotent ==
    /\ Cardinality(PastCheck(1)) <= 1
    /\ \A f \in {"quit", "cancel", "platform", "delete"} : effects[1][f] <= 1
    /\ AllReturned(1) =>
        /\ effects[1] = [quit |-> IF cmdMode THEN 0 ELSE 1, cancel |-> 1, platform |-> 1, delete |-> 1]
        /\ sessions[sessId[1]] = NoSession
        /\ closed[1] /\ sessDone[1] /\ bridgeClosed[1]

\* All racing calls have returned.
C8_Witness == AllReturned(1) /\ NumClosers > 1 /\ effects[1].delete = 1

\* ----------------------------------------------------------------------- C9
\* C9: when the spawned command exited on its own in a healthy session and
\* the client never went away, the client has received a close message by
\* the time the handler has closed the connection.
GotClose(c) == \E i \in 1..Len(toClient[c]) : toClient[c][i].type = MsgClose

C9_CloseOnProcessExit ==
    \A c \in Conns :
        (cmdMode /\ exitedOwn[c] /\ hpc[c] = "release" /\ clientState[c] = "closed")
            => GotClose(c)

\* ---------------------------------------------------------------------- C10
\* C10: with read-only on, the bridge's input writer never receives a byte,
\* whatever messages are dispatched on either transport.
C10_ReadOnlyNoInput == readOnly => \A c \in Conns : bridgeIn[c] = <<>>

\* An input message has been dispatched in a read-only session whose bridge
\* is open.
C10_Witness ==
    /\ readOnly
    /\ \E c \in Conns :
        /\ ~bridgeClosed[c]
        /\ \E i \in 1..Len(dispatched[c]) : dispatched[c][i].type = MsgInput /\ dispatched[c][i].bytes # <<>>

\* ---------------------------------------------------------------------- C11
\* C11: whatever mix of well-formed and malformed resize messages has been
\* dispatched to a session, the size its Pty() reports is the (cols, rows)
\* of the last of them that parsed, and the size it was created with if
\* none parsed yet.
ParsedResizes(c) ==
    {i \in 1..Len(dispatched[c]) :
        dispatched[c][i].type = MsgResize /\ dispatched[c][i].json.ok}
LastParsed(c) ==
    LET i == CHOOSE i \in ParsedResizes(c) : \A j \in ParsedResizes(c) : j <= i
    IN  <<dispatched[c][i].json.cols, dispatched[c][i].json.rows>>

C11_SizeIsLastParsedResize ==
    \A c \in Conns :
        sessId[c] # NoSession =>
            Pty(c) = IF ParsedResizes(c) = {} THEN SessionSize(initSize[c]) ELSE LastParsed(c)

\* Two different well-formed resizes and then a malformed one have been
\* dispatched.
C11_Witness ==
    /\ Len(dispatched[1]) = 3
    /\ dispatched[1][1].json = Json(100, 40)
    /\ dispatched[1][2].json = Json(120, 50)
    /\ dispatched[1][3] = Message(MsgResize, <<>>, NoJson, "small")
    /\ Pty(1) = <<120, 50>>

\* ---------------------------------------------------------------------- C12
\* C12: a consume from WindowChanges() after a burst of resizes yields the
\* last resize of the burst: the value taken from the channel is the size
\* of the last resize dispatched so far.
Consumes(c) == hpc'[c] = hpc[c] /\ winch[c] # <<>> /\ winch'[c] = Tail(winch[c])

C12_ConsumeYieldsLastResize ==
    [][\A c \in Conns : Consumes(c) => Head(winch[c]) = LastParsed(c)]_vars

\* ---------------------------------------------------------------------- C13
\* C13: the resize-notification channel never holds more than one value,
\* and a resize message the input pump is about to read is dispatched
\* whether or not the channel's slot is occupied: Resize does not wait for
\* a consumer.
NextIsResize(c) ==
    /\ ipc[c] = "read" /\ ~desync[c]
    /\ inbox[c] # <<>>
    /\ Head(inbox[c]).type = MsgResize /\ Head(inbox[c]).json.ok

C13_OneSlotNeverBlocks ==
    \A c \in Conns :
        /\ Len(winch[c]) <= 1
        /\ (NextIsResize(c) /\ winch[c] # <<>>) =>
              ENABLED (handleWebSocketInput(c, FALSE) \/ handleWebTransportInput(c, FALSE, Head(inbox[c])))

\* Three resizes have been dispatched with no consumer: the slot still holds
\* an earlier value.
C13_Witness ==
    /\ Cardinality(ParsedResizes(1)) = 3
    /\ winch[1] # <<>>
    /\ Head(winch[1]) # Pty(1)

\* ---------------------------------------------------------------------- C14
\* C14: when the first frame waiting at the negotiation read is a
\* well-formed resize {cols:c, rows:r} with c, r > 0, the handler adopts
\* (c, r), keeps it until the session is created, and the session and its
\* bridge are created at exactly c x r, on both transports.
FirstFrameResize(c) ==
    /\ hpc[c] = "negotiate"
    /\ inbox[c] # <<>>
    /\ Head(inbox[c]).type = MsgResize /\ Head(inbox[c]).json.ok
    /\ Head(inbox[c]).json.cols > 0 /\ Head(inbox[c]).json.rows > 0
    /\ Head(inbox[c]).len = "small"

C14_FirstResizeSetsSize ==
    [][\A c \in Conns :
        /\ (FirstFrameResize(c) /\ hpc'[c] # "negotiate")
              => /\ hpc'[c] = "create"
                 /\ initSize'[c] = <<Head(inbox[c]).json.cols, Head(inbox[c]).json.rows>>
        /\ (hpc[c] = "create" /\ hpc'[c] = "create") => initSize'[c] = initSize[c]
        /\ (hpc[c] = "create" /\ hpc'[c] = "start" /\ initSize[c][1] > 0 /\ initSize[c][2] > 0)
              => Pty(c)' = initSize[c] /\ ptySize'[c] = initSize[c]
      ]_vars

\* A WebTransport session has been created at the 100 x 40 of the first frame.
C14_Witness ==
    /\ transport[1] = "wt"
    /\ hpc[1] = "start"
    /\ initSize[1] = <<100, 40>>
    /\ Pty(1) = <<100, 40>> /\ ptySize[1] = <<100, 40>>

\* ---------------------------------------------------------------------- C15
\* C15: with a client that is connected and has sent nothing, the handler's
\* wait for the first frame ends by itself (the timeout): the negotiation
\* step is enabled on either transport, and the session of a client that
\* sent nothing is created at 80 x 24.
Silent(c) == clientState[c] = "open" /\ sent[c] = 0

C15_SilentClientGetsDefault ==
    \A c \in Conns :
        /\ (hpc[c] = "negotiate" /\ Silent(c))
              => ENABLED (NegotiateWebSocket(c) \/ NegotiateWebTransport(c))
        /\ (hpc[c] \in {"create", "start"} /\ Silent(c)) => initSize[c] = DefaultSize
        /\ (hpc[c] = "start" /\ Silent(c)) => Pty(c) = DefaultSize

\* ---------------------------------------------------------------------- C16
\* C16: the options message carrying the configured read-only flag is
\* written before either pump is launched: no pump runs and nothing has been
\* sent before it, it is the first message the client receives and the only
\* options message, and a client still connected once the pumps run has
\* received it.
PumpsLaunched(c) == opc[c] # "idle" \/ ipc[c] # "idle"

C16_OptionsFirst ==
    \A c \in Conns :
        /\ hpc[c] \in {"admitted", "negotiate", "create", "start"}
              => ~PumpsLaunched(c) /\ toClient[c] = <<>>
        /\ toClient[c] # <<>> => toClient[c][1] = ServerMsg(MsgOptions, <<readOnly>>)
        /\ \A i \in 2..Len(toClient[c]) : toClient[c][i].type # MsgOptions
        /\ (PumpsLaunched(c) /\ clientState[c] = "open") => toClient[c] # <<>>

\* The client of a read-only server has received the options message with
\* readOnly true and then an output message.
C16_Witness ==
    /\ readOnly
    /\ Len(toClient[1]) >= 2
    /\ toClient[1][1] = ServerMsg(MsgOptions, <<TRUE>>)
    /\ toClient[1][2].type = MsgOutput

\* ---------------------------------------------------------------------- C17
\* C17: the handler's close of its session starts only when both pumps have
\* returned, and when the handler is about to release its reservation the
\* session it created is closed and out of the close operation.
BothPumpsDone(c) == opc[c] = "done" /\ ipc[c] = "done"
TearingDown(c) == hpc[c] \in {"wtwait", "closing"} \/ cpc[c][1] # "idle" \/ closed[c]

C17_TeardownAfterPumps ==
    \A c \in Conns :
        /\ TearingDown(c) => BothPumpsDone(c)
        /\ (hpc[c] = "release" /\ PumpsLaunched(c)) => BothPumpsDone(c)
        /\ (hpc[c] = "release" /\ sessId[c] # NoSession)
              => closed[c] /\ cpc[c][1] = "ret" /\ effects[c].delete = 1
        /\ (hpc[c] # "release" /\ sessId[c] # NoSession) => releases[c] = 0

\* A WebTransport handler is about to release its reservation: both pumps
\* have returned and its session is closed.
C17_Witness ==
    /\ transport[1] = "wt"
    /\ hpc[1] = "release"
    /\ sessId[1] # NoSession
    /\ closed[1] /\ BothPumpsDone(1)

\* ---------------------------------------------------------------------- C18
\* C18: when the input pump of a WebTransport connection reads a frame whose
\* declared length is above 1 MiB, the frame is not dispatched and that pump
\* returns, cancelling its own handler's context; the step changes nothing
\* of any other connection (handler, session, bridge, pumps, client), nor
\* the admission counter, nor the registry.  No frame above the cap is ever
\* dispatched.
ConnState(d) ==
    <<transport[d], hpc[d], newCount[d], ctxDone[d], response[d], initSize[d],
      desync[d], sessId[d], size[d], closed[d], sessDone[d], winch[d],
      teaSize[d], procState[d], bgDone[d], bridgeClosed[d], ptySize[d],
      outPending[d], produced[d], bridgeIn[d], opc[d], ipc[d], clientState[d],
      inbox[d], sent[d], toClient[d], cpc[d], incs[d], decs[d], releases[d],
      dispatched[d]>>

ReadsOverFrame(c) ==
    /\ transport[c] = "wt" /\ ipc[c] = "read" /\ ~desync[c]
    /\ inbox[c] # <<>> /\ Head(inbox[c]).len = "over"
    /\ inbox'[c] = Tail(inbox[c])

IsOutput(m) == m.type = MsgOutput
Outputs(c) == SelectSeq(toClient[c], IsOutput)

C19_OutputInOrder ==
    \A c \in Conns :
        /\ Len(Outputs(c)) <= produced[c]
        /\ \A i \in 1..Len(Outputs(c)) : Outputs(c)[i] = ServerMsg(MsgOutput, <<i>>)

\* Two chunks have been delivered on a WebTransport connection.
C19_Witness == transport[1] = "wt" /\ Len(Outputs(1)) = 2 /\ MaxChunks >= 2

\* ---------------------------------------------------------------------- C20
\* C20: in a session that is not read-only, the bytes written to the
\* bridge's input writer are the payloads of the input messages the input
\* pump read, concatenated in the order it read them; writes made after the
\* bridge was closed fail, so then the bytes written are an initial part of
\* that concatenation.
RECURSIVE InputBytes(_)
InputBytes(ms) ==
    IF ms = <<>> THEN <<>>
    ELSE (IF Head(ms).type = MsgInput THEN Head(ms).bytes ELSE <<>>) \o InputBytes(Tail(ms))

IsPrefix(s, t) == Len(s) <= Len(t) /\ SubSeq(t, 1, Len(s)) = s

C20_InputInArrivalOrder ==
    ~readOnly =>
        \A c \in Conns :
            /\ IsPrefix(bridgeIn[c], InputBytes(dispatched[c]))
            /\ ~bridgeClosed[c] => bridgeIn[c] = InputBytes(dispatched[c])

\* Input "b", a resize and input "a" were read in this order on a
\* WebTransport connection and the bridge got "b", "a".
C20_Witness ==
    /\ ~readOnly /\ transport[1] = "wt"
    /\ Len(dispatched[1]) = 3
    /\ dispatched[1][2].type = MsgResize
    /\ bridgeIn[1] = <<"b", "a">>

\* ---------------------------------------------------------------------- C21
\* C21: sessions are isolated: a step of the dispatcher (input, resize) or
\* of the close operation on the session of one connection changes nothing
\* of any other connection's session (id, stored size, bridge, resize
\* channel, closed flag, context, program), and a live session that has its
\* entry in the registry before the step still has it after.
SessionOf(d) ==
    <<sessId[d], size[d], ptySize[d], bridgeClosed[d], bridgeIn[d], winch[d],
      teaSize[d], closed[d], sessDone[d], procState[d]>>

Registered(d) == sessId[d] # NoSession /\ ~closed[d] /\ sessions[sessId[d]] = d

OwnSessionStep(c) ==
    /\ dispatched'[c] # dispatched[c] \/ cpc'[c] # cpc[c]
    /\ hpc'[c] # "done"

C21_SessionsIsolated ==
    [][\A c \in Conns : OwnSessionStep(c) =>
          \A d \in Conns \ {c} :
              /\ SessionOf(d)' = SessionOf(d)
              /\ Registered(d) => Registered(d)'
      ]_vars

\* The part of C21 about the sessions' own state, without the registry.
C21_StateIsolated ==
    [][\A c \in Conns : OwnSessionStep(c) =>
          \A d \in Conns \ {c} : SessionOf(d)' = SessionOf(d)
      ]_vars

\* ---------------------------------------------------------------------- C22
\* SpecPair: one client per transport, connection 1 on WebSocket and
\* connection 2 on WebTransport, both accepted; the two clients send the
\* same protocol messages in the same order, the first of them before the
\* handlers read it.
MaxPair == 3

PairMsgs ==
    { Message(MsgInput, <<"a">>, NoJson, "small"),
      Message(MsgResize, <<>>, Json(100, 40), "small"),
      Message(MsgInput, <<"b">>, NoJson, "large") }

\* Both transports accepted, the first message, one of F, not yet read.
InitAccepted(F) ==
    /\ Serving
    /\ NoResize
    /\ NoFrames
    /\ maxConnections = 0
    /\ readOnly = FALSE
    /\ cmdMode \in BOOLEAN
    /\ connCount = 0
    /\ sessions = [i \in Ids |-> NoSession]
    /\ transport = [c \in Conns |-> IF c = 2 THEN "wt" ELSE "ws"]
    /\ hpc = [c \in Conns |-> IF c \in {1, 2} THEN "negotiate" ELSE "idle"]
    /\ newCount = [c \in Conns |-> 0]
    /\ ctxDone = [c \in Conns |-> FALSE]
    /\ response = [c \in Conns |-> "none"]
    /\ initSize = [c \in Conns |-> NoSize]
    /\ desync = [c \in Conns |-> FALSE]
    /\ sessId = [c \in Conns |-> NoSession]
    /\ size = [c \in Conns |-> NoSize]
    /\ closed = [c \in Conns |-> FALSE]
    /\ sessDone = [c \in Conns |-> FALSE]
    /\ winch = [c \in Conns |-> <<>>]
    /\ teaSize = [c \in Conns |-> NoSize]
    /\ procState = [c \in Conns |-> "none"]
    /\ bgDone = [c \in Conns |-> FALSE]
    /\ bridgeClosed = [c \in Conns |-> FALSE]
    /\ ptySize = [c \in Conns |-> NoSize]
    /\ outPending = [c \in Conns |-> <<>>]
    /\ produced = [c \in Conns |-> 0]
    /\ bridgeIn = [c \in Conns |-> <<>>]
    /\ opc = [c \in Conns |-> "idle"]
    /\ ipc = [c \in Conns |-> "idle"]
    /\ bufs = [c \in Conns |-> NoBufs]
    /\ clientState = [c \in Conns |-> IF c \in {1, 2} THEN "open" ELSE "none"]
    /\ \E first \in F :
          inbox = [c \in Conns |-> IF c \in {1, 2} THEN <<first>> ELSE <<>>]
    /\ sent = [c \in Conns |-> IF c \in {1, 2} THEN 1 ELSE 0]
    /\ toClient = [c \in Conns |-> <<>>]
    /\ cpc = [c \in Conns |-> [k \in Closers |-> "idle"]]
    /\ incs = [c \in Conns |-> 0]
    /\ decs = [c \in Conns |-> 0]
    /\ releases = [c \in Conns |-> 0]
    /\ exitedOwn = [c \in Conns |-> FALSE]
    /\ effects = [c \in Conns |-> NoEffects]
    /\ dispatched = [c \in Conns |-> <<>>]

InitPair == InitAccepted(PairMsgs)

\* Both clients send message m, each on its own connection.
ClientPair(m) ==
    /\ m \in PairMsgs
    /\ \A c \in {1, 2} : Connected(c) /\ clientState[c] = "open" /\ sent[c] < MaxPair
    /\ inbox' = [c \in Conns |-> IF c \in {1, 2} THEN Append(inbox[c], m) ELSE inbox[c]]
    /\ sent' = [c \in Conns |-> IF c \in {1, 2} THEN sent[c] + 1 ELSE sent[c]]
    /\ UNCHANGED <<cfgVars, fVars, lVars, rVars, srvVars, hVars, sVars, bVars, pVars, clientState,
                   toClient, cpc, histVars>>

NextPair ==
    \/ \E m \in PairMsgs : ClientPair(m)
    \/ \E c \in {1, 2} :
          \/ NegotiateWebSocket(c)
          \/ NegotiateWebTransport(c)
          \/ \E id \in ClockReadings : createSession(c, TRUE, id)
          \/ \E id \in ClockReadings : createCmdSession(c, TRUE, id)
          \/ HandlerStart(c, TRUE)
          \/ handleInputHead(c)
          \/ handleWebSocketInput(c, FALSE)
          \/ \E g \in PairMsgs \cup ClientMsgs : handleWebTransportInput(c, FALSE, g)

SpecPair == InitPair /\ [][NextPair]_vars

\* C22: the two transports behave alike: once the handlers of the two
\* clients have read everything their clients sent, both sessions were
\* created at the same size and have the same stored size, both dispatchers
\* got the same sequence of messages, both clients received the same server
\* messages, and either both input pumps still run or both have returned.
Settled(c) == hpc[c] = "pumps" /\ inbox[c] = <<>> /\ ~desync[c] /\ ipc[c] # "read"

C22_TransportsAgree ==
    (Settled(1) /\ Settled(2)) =>
        /\ initSize[1] = initSize[2]
        /\ Pty(1) = Pty(2)
        /\ dispatched[1] = dispatched[2]
        /\ toClient[1] = toClient[2]
        /\ (ipc[1] = "done") <=> (ipc[2] = "done")

\* ---------------------------------------------------------------------- C23
\* The handler ended the connection with an error status: handleWebSocket
\* calls conn.Close(websocket.StatusInternalError, ...); handleWebTransport
\* has no error close, its only close is the deferred
\* wtSession.CloseWithError(0, "session closed") of every return.
ErrorStatus(c) == transport[c] = "ws" /\ response[c] = "1011"

CreationFailed(c) == response[c] \in {"1011", "create_failed"}

\* The part of C23 about the registry and the pumps.
C23_NoSessionNoPump ==
    \A c \in Conns : CreationFailed(c) =>
        /\ sessId[c] = NoSession
        /\ \A i \in Ids : sessions[i] # c
        /\ opc[c] = "idle" /\ ipc[c] = "idle"
        /\ clientState[c] \in {"closed", "none"}

\* C23: when session creation fails, no session is stored in the registry
\* for the connection, no pump is started, and the connection is closed
\* with an error status, on both transports.
C23_CreationFailureClosesWithError ==
    /\ C23_NoSessionNoPump
    /\ \A c \in Conns : CreationFailed(c) => ErrorStatus(c)

\* Creation failed on a WebSocket connection, which got the error status,
\* while the other connection holds a registered session.
C23_Witness ==
    /\ CreationFailed(1) /\ ErrorStatus(1) /\ hpc[1] = "release"
    /\ sessId[2] # NoSession /\ sessions[sessId[2]] = 2

\* ---------------------------------------------------------------------- C24
\* httpServer.start, first goroutine: s.httpServer.ListenAndServe() binds or
\* fails; an error other than http.ErrServerClosed is sent on errChan.
httpListenAndServe(ok) ==
    /\ httpL = "starting"
    /\ httpL' = IF ok THEN "serving" ELSE "failed"
    /\ errChan' = IF ok THEN errChan ELSE Append(errChan, "http")
    /\ UNCHANGED <<wtL, stopCtx, startPc>>
    /\ UNCHANGED <<cfgVars, fVars, srvVars, hVars, sVars, bVars, pVars, cVars, cpc, rVars, histVars>>

\* ... or returns an error later, while serving.
httpServeError ==
    /\ httpL = "serving"
    /\ httpL' = "failed"
    /\ errChan' = Append(errChan, "http")
    /\ UNCHANGED <<wtL, stopCtx, startPc>>
    /\ UNCHANGED <<cfgVars, fVars, srvVars, hVars, sVars, bVars, pVars, cVars, cpc, rVars, histVars>>

\* Second goroutine: s.wtServer.ListenAndServe(); its error is logged
\* (logger.Warn) and nothing is sent on errChan.
wtListenAndServe(ok) ==
    /\ wtL = "starting"
    /\ wtL' = IF ok THEN "serving" ELSE "failed"
    /\ UNCHANGED <<httpL, errChan, stopCtx, startPc>>
    /\ UNCHANGED <<cfgVars, fVars, srvVars, hVars, sVars, bVars, pVars, cVars, cpc, rVars, histVars>>

wtServeError ==
    /\ wtL = "serving"
    /\ wtL' = "failed"
    /\ UNCHANGED <<httpL, errChan, stopCtx, startPc>>
    /\ UNCHANGED <<cfgVars, fVars, srvVars, hVars, sVars, bVars, pVars, cVars, cpc, rVars, histVars>>

\* The caller cancels the context it passed to start.
StopServer ==
    /\ ~stopCtx
    /\ stopCtx' = TRUE
    /\ UNCHANGED <<httpL, wtL, errChan, startPc>>
    /\ UNCHANGED <<cfgVars, fVars, srvVars, hVars, sVars, bVars, pVars, cVars, cpc, rVars, histVars>>

\* s.httpServer.Shutdown / s.wtServer.Close: a listener that is up, or not
\* yet up, ends without an error.
ShutDown(l) == IF l \in {"starting", "serving"} THEN "closed" ELSE l

\* select, case <-ctx.Done(): both listeners are shut down, start returns nil.
startShutdown ==
    /\ startPc = "select"
    /\ stopCtx
    /\ httpL' = ShutDown(httpL)
    /\ wtL' = ShutDown(wtL)
    /\ startPc' = "nil"
    /\ UNCHANGED <<errChan, stopCtx>>
    /\ UNCHANGED <<cfgVars, fVars, srvVars, hVars, sVars, bVars, pVars, cVars, cpc, rVars, histVars>>

\* select, case err := <-errChan: start returns err.
startError ==
    /\ startPc = "select"
    /\ errChan # <<>>
    /\ errChan' = Tail(errChan)
    /\ startPc' = "error"
    /\ UNCHANGED <<httpL, wtL, stopCtx>>
    /\ UNCHANGED <<cfgVars, fVars, srvVars, hVars, sVars, bVars, pVars, cVars, cpc, rVars, histVars>>

\* A request reaches the handler of transport t through its listener.
Request(c, t) ==
    /\ (IF t = "ws" THEN httpL ELSE wtL) = "serving"
    /\ HandlerEnter(c, t)

\* SpecStart: server start with its two listener goroutines, from the
\* moment both were launched; requests arrive through the listeners that
\* are up and end at the transport upgrade.
InitStart ==
    /\ InitHandlers
    /\ httpL = "starting"
    /\ wtL = "starting"
    /\ errChan = <<>>
    /\ stopCtx = FALSE
    /\ startPc = "select"

NextStart ==
    \/ \E ok \in BOOLEAN : httpListenAndServe(ok)
    \/ httpServeError
    \/ \E ok \in BOOLEAN : wtListenAndServe(ok)
    \/ wtServeError
    \/ StopServer
    \/ startShutdown
    \/ startError
    \/ \E c \in Conns :
          \/ \E t \in {"ws", "wt"} : Request(c, t)
          \/ checkConnectionLimit(c)
          \/ Reject(c)
          \/ \E o \in {"accept_failed", "stream_failed"} : HandlerAccept(c, o)
          \/ releaseConnection(c)

SpecStart == InitStart /\ [][NextStart]_vars

\* C24: a failure of either listener is fatal: while start has not returned
\* the failure is on its way to it (errChan), and once start has returned
\* an error no listener goes on serving.
C24_ListenerFailureFatal ==
    /\ (startPc = "select" /\ (httpL = "failed" \/ wtL = "failed")) => errChan # <<>>
    /\ startPc = "error" => (httpL # "serving" /\ wtL # "serving")

\* The part of C24 that is about the HTTP listener's failure reaching the
\* caller of start.
C24_HttpFailureReported ==
    /\ (startPc = "select" /\ httpL = "failed") => errChan # <<>>
    /\ startPc = "error" => httpL = "failed"
    /\ startPc = "nil" => (stopCtx /\ httpL # "serving" /\ wtL # "serving")

\* ---------------------------------------------------------------------- C25
\* C25: the session's context is cancelled when the session ends: once the
\* background goroutine has run after the exit of the process or the return
\* of the program's run, once the connection's context is cancelled, and
\* once a close operation has called cancel, the session's Done signal is
\* set; and once set it stays set for as long as the session exists.
DoneCause(c) ==
    \/ bgDone[c]
    \/ ctxDone[c] /\ sessId[c] # NoSession
    \/ effects[c].cancel > 0

C25_DoneSetAndStays ==
    [][\A c \in Conns :
          /\ DoneCause(c)' => sessDone'[c]
          /\ (sessDone[c] /\ sessId'[c] # NoSession) => sessDone'[c]
      ]_vars

\* The spawned process exited by itself in a healthy session and the
\* watcher has cancelled the session's context, while the connection's own
\* context is not cancelled and no close operation has started.
C25_Witness ==
    /\ cmdMode /\ exitedOwn[1] /\ bgDone[1]
    /\ sessDone[1] /\ ~ctxDone[1] /\ ~closed[1]

\* ---------------------------------------------------------------------- C26
\* Resize statement by statement, for what runs beside it.  rpc is the
\* statement the call is at, rargs its arguments.

\* Resize messages of two different sizes.
ResizeMsgs ==
    { Message(MsgResize, <<>>, Json(100, 40), "small"),
      Message(MsgResize, <<>>, Json(120, 50), "small") }

\* The input pump read a resize message that parses; processInput calls
\* session.Resize(resize.Cols, resize.Rows).
ResizeDispatch(c) ==
    /\ ipc[c] = "read"
    /\ rpc[c] = "idle"
    /\ inbox[c] # <<>>
    /\ Head(inbox[c]).type = MsgResize /\ ~Unmarshal(Head(inbox[c]).json).err
    /\ inbox' = Set(inbox, c, Tail(inbox[c]))
    /\ dispatched' = Set(dispatched, c, Append(dispatched[c], Head(inbox[c])))
    /\ rargs' = Set(rargs, c, <<Unmarshal(Head(inbox[c]).json).cols, Unmarshal(Head(inbox[c]).json).rows>>)
    /\ rpc' = Set(rpc, c, "lock")
    /\ bufs' = GetSmallBuf(c, Head(inbox[c]))
    /\ UNCHANGED <<cfgVars, fVars, srvVars, lVars, hVars, sVars, bVars, opc, ipc,
                   clientState, sent, toClient, cpc, ptySeen, incs, decs,
                   releases, exitedOwn, effects>>

\* Variant: the bridge is resized first, the size stored afterwards.
ResizeLockLate(c) ==
    /\ rpc[c] = "lock"
    /\ ptySize' = IF bridgeClosed[c] THEN ptySize ELSE Set(ptySize, c, rargs[c])
    /\ rpc' = Set(rpc, c, "platform")
    /\ UNCHANGED <<cfgVars, fVars, srvVars, lVars, hVars, sVars, procState, bgDone,
                   bridgeClosed, outPending, produced, bridgeIn, pVars, cVars,
                   cpc, rargs, ptySeen, histVars>>

\* s.mu.Lock(); s.cols = cols; s.rows = rows; s.mu.Unlock()
ResizeLock(c) ==
    /\ rpc[c] = "lock"
    /\ size' = Set(size, c, rargs[c])
    /\ rpc' = Set(rpc, c, "platform")
    /\ UNCHANGED <<cfgVars, fVars, srvVars, lVars, hVars, sessId, closed, sessDone,
                   winch, teaSize, bVars, pVars, cVars, cpc, rargs, ptySeen,
                   histVars>>

\* _ = s.platform.Resize(cols, rows)
ResizePlatform(c) ==
    /\ rpc[c] = "platform"
    /\ ptySize' = IF bridgeClosed[c] THEN ptySize ELSE Set(ptySize, c, rargs[c])
    /\ rpc' = Set(rpc, c, "select")
    /\ UNCHANGED <<cfgVars, fVars, srvVars, lVars, hVars, sVars, procState, bgDone,
                   bridgeClosed, outPending, produced, bridgeIn, pVars, cVars,
                   cpc, rargs, ptySeen, histVars>>

\* select { case s.windowChanges <- WindowSize{...}: default: }; here
\* cmdSession.Resize returns.
ResizeSelect(c) ==
    /\ rpc[c] = "select"
    /\ winch' = IF Len(winch[c]) < 1 THEN Set(winch, c, <<rargs[c]>>) ELSE winch
    /\ rpc' = Set(rpc, c, IF cmdMode THEN "idle" ELSE "send")
    /\ ipc' = IF cmdMode THEN Set(ipc, c, "head") ELSE ipc
    /\ UNCHANGED bufs
    /\ UNCHANGED <<cfgVars, fVars, srvVars, lVars, hVars, sessId, size, closed,
                   sessDone, teaSize, bVars, opc, cVars, cpc, rargs, ptySeen,
                   histVars>>

\* s.program.Send(tea.WindowSizeMsg{...}); webSession.Resize returns.
ResizeSend(c) ==
    /\ rpc[c] = "send"
    /\ teaSize' = Set(teaSize, c, rargs[c])
    /\ rpc' = Set(rpc, c, "idle")
    /\ ipc' = Set(ipc, c, "head")
    /\ UNCHANGED bufs
    /\ UNCHANGED <<cfgVars, fVars, srvVars, lVars, hVars, sessId, size, closed,
                   sessDone, winch, bVars, opc, cVars, cpc, rargs, ptySeen,
                   histVars>>

\* Another goroutine calls Pty(): the stored size, read under the lock.
\* ptySeen keeps it together with the size the bridge has at that moment.
PtyRead(c) ==
    /\ Live(c)
    /\ ptySeen' = Set(ptySeen, c, <<Pty(c), ptySize[c]>>)
    /\ UNCHANGED <<cfgVars, fVars, srvVars, lVars, hVars, sVars, bVars, pVars, cVars,
                   cpc, rpc, rargs, histVars>>

\* The client sends a resize message.
ClientResize(c, m) == m \in ResizeMsgs /\ Send(c, m, MaxBurst)

\* SpecResize: one running session whose client sends resize messages,
\* with a reader of Pty() and the application's reader of WindowChanges()
\* running beside the input pump.
InitResize == InitRunning({1})

NextResize ==
    \/ \E m \in ResizeMsgs : ClientResize(1, m)
    \/ handleInputHead(1)
    \/ ResizeDispatch(1)
    \/ ResizeLock(1)
    \/ ResizePlatform(1)
    \/ ResizeSelect(1)
    \/ ResizeSend(1)
    \/ PtyRead(1)
    \/ WindowChanges(1)

SpecResize == InitResize /\ [][NextResize]_vars

\* C26: within one Resize call the stored size is updated before the
\* bridge is resized, and the bridge is resized before the notification
\* channel is touched: the stored size changes only at the call's first
\* statement, the bridge only at its second, when the size is stored, and
\* the channel gets a value only at its third, when size and bridge both
\* have the call's value.
C26_ResizeOrder ==
    [][\A c \in Conns :
          /\ size'[c] # size[c] => rpc[c] = "lock" /\ size'[c] = rargs[c]
          /\ ptySize'[c] # ptySize[c] =>
                /\ rpc[c] = "platform"
                /\ size[c] = rargs[c] /\ ptySize'[c] = rargs[c]
          /\ Len(winch'[c]) > Len(winch[c]) =>
                /\ rpc[c] = "select"
                /\ size[c] = rargs[c] /\ ptySize[c] = rargs[c]
                /\ winch'[c] = <<rargs[c]>>
          /\ rpc[c] = "select" => (size[c] = rargs[c] /\ ptySize[c] = rargs[c])
      ]_vars

\* A Resize(120, 50) has stored its size and resized the bridge, and is
\* about to touch the channel, which still holds the value of an earlier
\* resize.
C26_Witness ==
    /\ rpc[1] = "select" /\ rargs[1] = <<120, 50>>
    /\ Pty(1) = <<120, 50>> /\ ptySize[1] = <<120, 50>>
    /\ winch[1] = <<<<100, 40>>>>

\* ---------------------------------------------------------------------- C27
\* C27: a reader of Pty() never observes a resize that has not yet reached
\* the bridge: whenever a call of Pty() returned a size set by a resize, the
\* bridge had that size at that moment.
C27_ReaderSeesBridgeSize ==
    \A c \in Conns :
        (ptySeen[c][1] # NoSize /\ ptySeen[c][1] # DefaultSize) => ptySeen[c][2] = ptySeen[c][1]

\* ---------------------------------------------------------------------- C28
\* C28: a resize message whose payload does not parse is ignored: the step
\* that dispatches it leaves the stored size, the bridge size, the resize
\* channel and the bridge input unchanged, cancels nothing, and leaves the
\* input pump at the head of its loop; a resize that parses and is
\* dispatched later is applied as usual.
Malformed(m) == m.type = MsgResize /\ Unmarshal(m.json).err

DispatchesOne(c) == Len(dispatched'[c]) = Len(dispatched[c]) + 1

C28_MalformedResizeIgnored ==
    [][\A c \in Conns : DispatchesOne(c) =>
          LET m == dispatched'[c][Len(dispatched'[c])] IN
          /\ Malformed(m) =>
                /\ size'[c] = size[c] /\ ptySize'[c] = ptySize[c]
                /\ winch'[c] = winch[c] /\ teaSize'[c] = teaSize[c]
                /\ bridgeIn'[c] = bridgeIn[c]
                /\ ctxDone'[c] = ctxDone[c] /\ sessDone'[c] = sessDone[c]
                /\ ipc'[c] = "head"
          /\ (m.type = MsgResize /\ ~Malformed(m)) =>
                size'[c] = <<m.json.cols, m.json.rows>>
      ]_vars

\* A malformed resize was dispatched first and changed nothing; the resize
\* to 100 x 40 dispatched after it was applied, and input "a" after that
\* reached the bridge.
C28_Witness ==
    /\ ~readOnly
    /\ Len(dispatched[1]) = 3
    /\ Malformed(dispatched[1][1])
    /\ dispatched[1][2] = Message(MsgResize, <<>>, Json(100, 40), "small")
    /\ dispatched[1][3].type = MsgInput
    /\ Pty(1) = <<100, 40>> /\ bridgeIn[1] = <<"a">>

\* ---------------------------------------------------------------------- C29
\* The client sends a message the dispatcher has no work for (or input).
ClientOther(c, m) == m \in OtherMsgs /\ Send(c, m, MaxBurst)

\* SpecOther: one running session whose client sends pings, empty messages
\* and messages of other types among its input, and may disconnect.
InitOther == InitRunning({1})

NextOther ==
    \/ \E m \in OtherMsgs : ClientOther(1, m)
    \/ ClientDisconnect(1)
    \/ handleInputHead(1)
    \/ \E fail \in BOOLEAN : handleWebSocketInput(1, fail)
    \/ \E fail \in BOOLEAN, g \in OtherMsgs : handleWebTransportInput(1, fail, g)

SpecOther == InitOther /\ [][NextOther]_vars

\* C29: a ping, a message of any other type and an empty message have no
\* session-level effect: the step that dispatches one writes nothing to the
\* bridge, changes no size and no resize notification, sends nothing to
\* the client, cancels nothing, and leaves the input pump at the head of
\* its loop.
NoWork(m) == m = EmptyMsg \/ m.type \notin {MsgInput, MsgResize}

C29_NoWorkNoEffect ==
    [][\A c \in Conns : DispatchesOne(c) =>
          LET m == dispatched'[c][Len(dispatched'[c])] IN
          NoWork(m) =>
              /\ bridgeIn'[c] = bridgeIn[c]
              /\ size'[c] = size[c] /\ ptySize'[c] = ptySize[c]
              /\ winch'[c] = winch[c] /\ teaSize'[c] = teaSize[c]
              /\ toClient'[c] = toClient[c]
              /\ ctxDone'[c] = ctxDone[c] /\ sessDone'[c] = sessDone[c]
              /\ hpc'[c] = hpc[c] /\ ipc'[c] = "head"
      ]_vars

\* An empty message, a message of an undefined type and a ping were
\* dispatched on a session that is not read-only: nothing reached the
\* bridge and the input pump is about to read again.
C29_Witness ==
    /\ ~readOnly
    /\ dispatched[1] = <<EmptyMsg, Message("9", <<"x">>, NoJson, "small"),
                        Message(MsgPing, <<>>, NoJson, "small")>>
    /\ bridgeIn[1] = <<>> /\ Pty(1) = DefaultSize
    /\ ipc[1] = "read" /\ ~ctxDone[1]

\* ---------------------------------------------------------------------- C30
\* The close operation has run to its end for the session of c: the
\* registry entry was deleted and the call that deleted it has returned.
ReachedClosed(c) ==
    /\ closed[c] /\ effects[c].delete > 0
    /\ \E k \in Closers : cpc[c][k] = "ret"

\* C30: the session reaches Closed only after the bridge has been closed
\* and the backing program or process has terminated, for both variants.
C30_ClosedAfterTermination ==
    \A c \in Conns : ReachedClosed(c) => (bridgeClosed[c] /\ procState[c] = "exited")

\* The part of C30 that is about the bridge, and about the spawned process.
C30_ClosedAfterBridgeAndProcess ==
    \A c \in Conns : ReachedClosed(c) =>
        /\ bridgeClosed[c]
        /\ cmdMode => procState[c] = "exited"

\* A spawned-process session that was still running when its close began
\* has reached Closed with its process gone.
C30_Witness ==
    /\ cmdMode /\ ReachedClosed(1)
    /\ ~bgDone[1] /\ procState[1] = "exited" /\ bridgeClosed[1]

\* ---------------------------------------------------------------------- C31
\* C31: the output pump sends a close message and returns when its read of
\* the bridge fails or ends, and when it finds the session done (and the
\* connection's context not cancelled) at its loop head: after such a step
\* the pump has returned and the close message is the last message of a
\* client whose connection can take the write.  A close message is the last
\* message the client gets: no output message follows it.
ReadFails(c) == opc[c] = "read" /\ opc'[c] = "done" /\ outPending'[c] = outPending[c]
SeesSessionDone(c) == opc[c] = "head" /\ opc'[c] # "head" /\ sessDone[c] /\ ~ctxDone[c]
CanWrite(c) == clientState[c] = "open" /\ ~(transport[c] = "ws" /\ ctxDone[c])
CloseMsg == ServerMsg(MsgClose, <<>>)

C31_CloseThenReturn ==
    [][\A c \in Conns :
          /\ (ReadFails(c) \/ SeesSessionDone(c)) =>
                /\ opc'[c] = "done"
                /\ toClient'[c] \in {toClient[c], Append(toClient[c], CloseMsg)}
                /\ CanWrite(c) => toClient'[c] = Append(toClient[c], CloseMsg)
          /\ \A i \in 1..Len(toClient'[c]) :
                toClient'[c][i] = CloseMsg => i = Len(toClient'[c])
      ]_vars

\* The program wrote a chunk and exited; the client of a WebTransport
\* connection got the options, the chunk and then the close message, and
\* the output pump has returned.
C31_Witness ==
    /\ transport[1] = "wt" /\ exitedOwn[1]
    /\ Len(toClient[1]) = 3
    /\ toClient[1][2].type = MsgOutput
    /\ toClient[1][3] = CloseMsg
    /\ opc[1] = "done"

\* ---------------------------------------------------------------------- C32
\* A pump that is not running holds no pool buffer.
PumpOver(pc, c) == pc[c] \in {"idle", "done"}

\* C32: every pooled buffer a pump checked out is back in its pool once the
\* pump has returned, whichever way it returned: the output pump holds
\* neither its read buffer nor its write buffer, the input pump holds no small
\* message buffer, and no pool is given a buffer it did not hand out.
C32_BuffersReturned ==
    \A c \in Conns :
        /\ bufs[c].read >= 0 /\ bufs[c].write >= 0 /\ bufs[c].small >= 0
        /\ PumpOver(opc, c) => bufs[c].read = 0 /\ bufs[c].write = 0
        /\ PumpOver(ipc, c) => bufs[c].small = 0

\* On the length-prefixed transport the input pump dispatched a pooled
\* message and then returned while the client was still connected and had
\* nothing more to send (an over-cap frame or a cancelled context); the
\* output pump returned too and the handler has not yet gone on.
C32_Witness ==
    /\ transport[1] = "wt"
    /\ hpc[1] = "pumps"
    /\ opc[1] = "done" /\ ipc[1] = "done"
    /\ clientState[1] = "open" /\ inbox[1] = <<>> /\ sent[1] = MaxClientMsgs
    /\ Len(dispatched[1]) >= 1 /\ Pooled(dispatched[1][1])
    /\ bufs[1] = NoBufs

\* ---------------------------------------------------------------------- C40
\* C40: an input pump of the length-prefixed transport never holds more than
\* one small message buffer at a time.
C40_AtMostOneSmallBuffer == \A c \in Conns : bufs[c].small <= 1

\* A running input pump holds the buffers of two messages it has already
\* handed to processInput.
C40_Witness ==
    /\ transport[1] = "wt"
    /\ ipc[1] \in {"head", "read"}
    /\ Len(dispatched[1]) = 2
    /\ bufs[1].small = 2

\* ---------------------------------------------------------------------- C33
\* The length-prefixed stream at byte level.

\* Frames written, bytes of a short payload, bytes of the long message.
MaxFrames == 2
MaxPayload == 2
LongLen == 257

\* handleWebTransportInput: a length above 1024*1024 ends the pump.
FrameCap == 1048576

\* binary.BigEndian.PutUint32: the four bytes of n, most significant first.
PutUint32(n) ==
    << (n \div 16777216) % 256, (n \div 65536) % 256, (n \div 256) % 256, n % 256 >>

\* binary.BigEndian.Uint32: the number four bytes stand for.
Uint32(b) == b[1] * 16777216 + b[2] * 65536 + b[3] * 256 + b[4]

\* The first n bytes of a stream and what follows them.
Take(s, n) == SubSeq(s, 1, n)
Drop(s, n) == SubSeq(s, n + 1, Len(s))

\* Variant: the length prefix counts its own four bytes.
writeFramedInclusive(msg) == PutUint32(4 + Len(msg)) \o msg

\* writeFramed(w, msg): frame = 4-byte big-endian len(msg), then msg.
writeFramed(msg) == PutUint32(Len(msg)) \o msg

\* A message is its type byte followed by its payload.
TypedMessage(t, payload) == <<t>> \o payload

\* processInput: msgType := data[0]; payload := data[1:].
msgType(data) == data[1]
payload(data) == Tail(data)

\* Byte values of the scenario: zero, one, the type bytes '0' (MsgInput) and
\* '2' (MsgResize), and the largest byte.
WireBytes == {0, 1, 48, 50, 255}
WireTypes == {48, 50}

\* Payloads of up to MaxPayload bytes, and one payload that makes a message
\* of LongLen bytes, more than one byte of length and more than a pooled
\* buffer holds.
ShortPayloads == UNION { [1..n -> WireBytes] : n \in 0..MaxPayload }
LongPayload == [i \in 1..(LongLen - 1) |-> 255]
WirePayloads == ShortPayloads \cup {LongPayload}

\* The peer has announced a message above the cap, after which it writes
\* nothing more: the pump has returned on the announcement, or the
\* announcement is the last thing on the wire (no frame of the scenario ends
\* in these four bytes).
Announced ==
    \/ need = PumpReturned
    \/ Len(wire) >= 4 /\ Drop(wire, Len(wire) - 4) = PutUint32(FrameCap + 1)

\* The peer writes one message as a frame.
WriteFrame(t, p) ==
    /\ Len(written) < MaxFrames
    /\ ~Announced
    /\ wire' = wire \o writeFramed(TypedMessage(t, p))
    /\ written' = Append(written, TypedMessage(t, p))
    /\ UNCHANGED <<need, decoded>>
    /\ UNCHANGED <<cfgVars, srvVars, lVars, hVars, sVars, bVars, pVars, cVars, cpc, rVars,
                   histVars>>

\* The peer announces a message above the cap; the pump needs only the
\* length to give up, so no byte of the message is written.
WriteOverCap ==
    /\ Len(written) < MaxFrames
    /\ ~Announced
    /\ wire' = wire \o PutUint32(FrameCap + 1)
    /\ UNCHANGED <<need, written, decoded>>
    /\ UNCHANGED <<cfgVars, srvVars, lVars, hVars, sVars, bVars, pVars, cVars, cpc, rVars,
                   histVars>>

\* handleWebTransportInput: io.ReadFull(stream, lenBuf) waits for four
\* bytes; a length above 1 MiB makes the pump return.
ReadLength ==
    /\ need = AtLength
    /\ Len(wire) >= 4
    /\ wire' = Drop(wire, 4)
    /\ need' = IF Uint32(Take(wire, 4)) > FrameCap
               THEN PumpReturned
               ELSE AtBody(Uint32(Take(wire, 4)))
    /\ UNCHANGED <<written, decoded>>
    /\ UNCHANGED <<cfgVars, srvVars, lVars, hVars, sVars, bVars, pVars, cVars, cpc, rVars,
                   histVars>>

\* handleWebTransportInput: io.ReadFull(stream, msg) waits for length bytes
\* and hands them to processInput.
ReadBody ==
    /\ need.at = "body"
    /\ Len(wire) >= need.len
    /\ wire' = Drop(wire, need.len)
    /\ decoded' = Append(decoded, Take(wire, need.len))
    /\ need' = AtLength
    /\ UNCHANGED written
    /\ UNCHANGED <<cfgVars, srvVars, lVars, hVars, sVars, bVars, pVars, cVars, cpc, rVars,
                   histVars>>

\* SpecCodec: a peer writes frames to one stream and the input pump reads
\* them back.
InitCodec == InitHandlers /\ Serving /\ maxConnections = 0 /\ ~readOnly /\ ~cmdMode

NextCodec ==
    \/ \E t \in WireTypes, p \in WirePayloads : WriteFrame(t, p)
    \/ WriteOverCap
    \/ ReadLength
    \/ ReadBody

SpecCodec == InitCodec /\ [][NextCodec]_vars

\* The pump has read everything written.
Drained == wire = <<>> /\ need = AtLength

\* C33: framing round-trips.  The messages the input pump hands to
\* processInput are, in order and one for one, the messages written as
\* frames, with the same type byte and the same payload; once the pump has
\* read all that was written nothing is missing; and a length up to the cap
\* survives its four-byte big-endian encoding.
C33_FramingRoundTrips ==
    /\ Len(decoded) <= Len(written)
    /\ \A i \in 1..Len(decoded) :
          /\ msgType(decoded[i]) = msgType(written[i])
          /\ payload(decoded[i]) = payload(written[i])
    /\ Drained => Len(decoded) = Len(written)
    /\ \A n \in {0, 1, 255, 256, 257, 65535, 65536, FrameCap} :
          Uint32(PutUint32(n)) = n

\* Two frames were written, the long one and one whose payload bytes could
\* be taken for a length prefix, and the pump has read both.
C33_Witness ==
    /\ Drained
    /\ Len(decoded) = 2
    /\ decoded[1] = TypedMessage(50, LongPayload)
    /\ decoded[2] = TypedMessage(48, <<0, 0>>)

\* ---------------------------------------------------------------------- C34
\* C34: on the length-prefixed transport the input pump never runs on a
\* stream that still holds payload bytes of the first frame: the negotiation
\* has consumed that frame whole.
C34_PumpStartsAtFrameBoundary ==
    \A c \in Conns : (transport[c] = "wt" /\ ipc[c] \in {"head", "read"}) => ~desync[c]

\* The input pump of the length-prefixed connection is about to read while
\* the payload of the first frame is still in the stream.
C34_Witness ==
    /\ transport[2] = "wt"
    /\ ipc[2] = "read"
    /\ desync[2]
    /\ sent[2] >= 1

\* ---------------------------------------------------------------------- C35
\* The server takes the client's next message, an input message, off the
\* connection of c.
TakesInput(c) ==
    /\ inbox[c] # <<>>
    /\ inbox'[c] = Tail(inbox[c])
    /\ Head(inbox[c]).type = MsgInput

\* C35: in a session that is not read-only no input message is lost: every
\* input message the server takes off a connection, the first message of the
\* connection included, has its payload written to the bridge (unless the
\* bridge is already closed).
C35_NoInputLost ==
    [][~readOnly =>
          \A c \in Conns :
              (TakesInput(c) /\ ~bridgeClosed[c]) =>
                  bridgeIn'[c] = bridgeIn[c] \o Head(inbox[c]).bytes
      ]_vars

\* ---------------------------------------------------------------------- C36
\* C36: on the length-prefixed transport, once both pumps have returned the
\* handler can go on to close the session and release its admission
\* reservation by itself, whatever the client does or does not do.
C36_TeardownNeedsNoClient ==
    \A c \in Conns :
        (transport[c] = "wt" /\ hpc[c] = "wtwait") => ENABLED WebTransportSessionDone(c)

\* Both pumps have returned, the client is still connected, and the session
\* is still open and registered while the handler waits.
C36_Witness ==
    /\ transport[1] = "wt"
    /\ hpc[1] = "wtwait"
    /\ opc[1] = "done" /\ ipc[1] = "done"
    /\ clientState[1] = "open"
    /\ ~closed[1]
    /\ releases[1] = 0

\* ---------------------------------------------------------------------- C37
\* C37: the admission counter is never negative, and whenever no handler is
\* inside checkConnectionLimit it equals the number of connections admitted
\* and not yet released, or 0 when the limit is off.
C37_CounterMatchesAdmitted ==
    /\ connCount >= 0
    /\ (\A c \in Conns : ~Checking(c)) =>
          connCount = (IF LimitOff THEN 0 ELSE NumAdmitted)

\* With the limit on, one connection is admitted, another has incremented
\* the counter and decremented it again (released or turned away) and its
\* handler has returned, and no check is in progress.
C37_Witness ==
    /\ ~LimitOff
    /\ \A c \in Conns : ~Checking(c)
    /\ connCount = 1
    /\ \E c, d \in Conns :
          /\ Admitted(c)
          /\ hpc[d] = "done" /\ incs[d] = 1 /\ decs[d] = 1

\* ---------------------------------------------------------------------- C38
\* Resize messages a client can send: a usual one, the empty JSON object (no
\* field set, both read as 0), a negative dimension, and a payload that does
\* not parse.
MaxSizeMsgs == 2

SizeMsgs ==
    { Message(MsgResize, <<>>, Json(100, 40), "small"),
      Message(MsgResize, <<>>, Json(0, 0), "small"),
      Message(MsgResize, <<>>, Json(100, -1), "small"),
      Message(MsgResize, <<>>, NoJson, "small") }

\* The client of c sends a resize message.
ClientSize(c, m) == m \in SizeMsgs /\ Send(c, m, MaxSizeMsgs)

\* SpecSize: a WebSocket and a WebTransport connection whose clients send
\* resize messages, the first of them before the session is created.
InitSize == InitAccepted(SizeMsgs)

NextSize ==
    \E c \in {1, 2} :
        \/ \E m \in SizeMsgs : ClientSize(c, m)
        \/ NegotiateWebSocket(c)
        \/ NegotiateWebTransport(c)
        \/ \E id \in ClockReadings : createSession(c, TRUE, id)
        \/ \E id \in ClockReadings : createCmdSession(c, TRUE, id)
        \/ HandlerStart(c, TRUE)
        \/ handleInputHead(c)
        \/ handleWebSocketInput(c, FALSE)
        \/ \E g \in SizeMsgs : handleWebTransportInput(c, FALSE, g)

SpecSize == InitSize /\ [][NextSize]_vars

HasSession(c) == sessId[c] # NoSession

\* C38: the size Pty() reports for a session always has cols > 0 and
\* rows > 0, from creation on and after any resize message.
C38_SizePositive ==
    \A c \in Conns : HasSession(c) => (Pty(c)[1] > 0 /\ Pty(c)[2] > 0)

\* The first message asked for 0 x 0 and the session was created 80 x 24;
\* then a resize with an empty JSON object was dispatched and Pty() reports
\* 0 x 0.
C38_Witness ==
    /\ HasSession(1)
    /\ initSize[1] = <<0, 0>>
    /\ Len(dispatched[1]) = 1
    /\ dispatched[1][1].json = Json(0, 0)
    /\ Pty(1) = <<0, 0>>

\* What does hold: a session starts with a positive size whatever the first
\* message asked for.
C38_PositiveAtCreation ==
    [][\A c \in Conns :
          (~HasSession(c) /\ HasSession(c)') => (Pty(c)[1] > 0 /\ Pty(c)[2] > 0)'
      ]_vars

\* ---------------------------------------------------------------------- C39
\* A session that was created and not yet closed.
LiveSession(c) == sessId[c] # NoSession /\ ~closed[c]

\* C39: live sessions have distinct registry keys, so each of them has its
\* own entry: no creation stores over the entry of another live session.
C39_DistinctKeys ==
    \A c, d \in Conns :
        (c # d /\ LiveSession(c) /\ LiveSession(d)) =>
            /\ sessId[c] # sessId[d]
            /\ sessions[sessId[c]] = c

\* Two live sessions got the same id and the registry holds only the one
\* stored last.
C39_Witness ==
    /\ LiveSession(1) /\ LiveSession(2)
    /\ sessId[1] = sessId[2]
    /\ sessions[sessId[1]] = 2
    /\ hpc[1] = "pumps" /\ hpc[2] = "pumps"

====
